---- MODULE Spec2Model ----
(***************************************************************************)
(* Model of the ccscanner scan engine (internal/scanner/scanner.go), its   *)
(* content-addressed cache (internal/cache) and the aggregate result       *)
(* (pkg/models).                                                           *)
(*                                                                         *)
(* Threads: the walker (the goroutine that runs Scanner.Scan and the       *)
(* filepath.Walk callback) and one worker goroutine per dispatched file.   *)
(* A Scanner is used for one Scan, as in the usage notes of scanner.go;    *)
(* a later scan constructs a new Scanner, whose cache is loaded from the   *)
(* persisted cache file.                                                   *)
(***************************************************************************)
EXTENDS Integers, Sequences, FiniteSets, Bags, TLC

\* ---------------------------------------------------------------- bounds
NumFiles == 2            \* entries of the walked tree, in walk order
MaxScans == 2            \* scans run one after the other
MaxCfgWorkers == 2       \* largest configured max_workers
MaxClock == 8            \* days the clock may reach
MaxOps == 2              \* cache operations per thread in the cache harness

\* ------------------------------------------------------ program constants
DefaultMaxWorkers == 10  \* scanner.go: config.MaxWorkers = 10
StaleWindow == 7         \* cache: 7*24*time.Hour, in days

Files == 1..NumFiles
Walker == 0
Threads == {Walker} \cup Files
NoThread == -1
Kinds == {"ok", "fail", "ioerr", "skip"}
Contents == {0, 1}
SharedRecord == 99

VARIABLES
    \* environment
    kind,          \* kind[f]: what the walk and the extractor do with entry f
    content,       \* content[f]: current content of file f
    readable,      \* readable[f]: whether file f can be opened
    now,           \* wall clock, in days
    disk,          \* the cache file cache.json
    \* configuration of the scanner
    maxWorkersCfg, \* Config.MaxWorkers as passed to NewScanner
    enableCache,   \* Config.EnableCache
    \* Cache
    entries,       \* Cache.entries
    rwWriter,      \* Cache.mu: the thread holding the write lock
    rwReaders,     \* Cache.mu: the threads holding the read lock
    cpc,           \* cpc[t]: position of thread t inside a cache call
    cop,           \* cop[t]: the call's arguments
    buf,           \* buf[t]: the data save() marshalled
    gres,          \* gres[t]: what Get returned to thread t
    sres,          \* sres[t]: whether Set returned an error to thread t
    \* Scanner
    scanNo,        \* number of the scan (scanner) in progress
    scanPc,        \* position of Scan / the walk callback
    walkIdx,       \* the tree entry the walk is at
    result,        \* Scanner.result (DependencyResult)
    mu,            \* Scanner.mu: the thread holding it
    egErr,         \* errgroup: whether a task returned an error
    wpc,           \* wpc[f]: position of the worker goroutine of file f
    local,         \* local[f]: deps returned by ext.Extract in worker f
    seen,          \* seen[f]: the Errors slice worker f read in AddError
    \* history
    out,           \* out[f]: records produced for f in this scan
    hit,           \* hit[f]: f was served from the cache in this scan
    prevStored,    \* prevStored[f]: when f was last extracted, Set(f) returned nil
    prevScanned,   \* prevScanned[f]: f was matched in an earlier scan
    prevAt,        \* prevAt[f]: clock of the scan that last extracted f
    scanAt,        \* clock at the start of this scan
    scanContent,   \* the files' contents at the start of this scan
    prevContent,   \* prevContent[f]: f's content in the scan that last matched it
    loaded,        \* paths of the table NewCache loaded for this scanner
    setLog,        \* setLog[p]: content, time and deps of the last Set on p
    lastSave,      \* outcome of the last save(): "none", "ok" or "fail"
    opsLeft,       \* cache harness: operations thread t may still start
    other,         \* cache harness: what another Cache instance loaded
    \* the rest of the program
    exists,        \* exists[f]: whether file f is present (os.Stat succeeds)
    vres,          \* vres[t]: whether Validate returned an error to thread t
    stopReq,       \* the scan for which a stop request was answered (0: none)
    tree,          \* the directory tree below target_dir and target_dir's name
    examined,      \* the files the walk callback passed on to detectFileType
    version,       \* a version string handed to normalizeVersion
    normalized,    \* what normalizeVersion returned for it
    deps,          \* the records handed to Analyze / Resolve
    graph,         \* DependencyAnalyzer.graph
    analysis,      \* the AnalysisResult Analyze returned
    resolved,      \* the ResolveResult Resolve returned
    registry,      \* RegisteredExtractors: the extractor types registered
    chosen,        \* what detectFileType returned for a file name
    text,          \* the lines of a file handed to an extractor
    extracted,     \* what the extractor's Extract calls on it returned
    analysed       \* the record lists Analyze was called with, in order

envVars == <<kind, content, readable, now, disk>>
cfgVars == <<maxWorkersCfg, enableCache>>
cacheVars == <<entries, rwWriter, rwReaders, cpc, cop, buf, gres, sres>>
scanVars == <<scanNo, scanPc, walkIdx, result, mu, egErr, wpc, local, seen>>
histVars == <<out, hit, prevStored, prevScanned, prevAt, scanAt, scanContent,
              prevContent,
              loaded, setLog, lastSave, opsLeft, other>>
auxVars == <<exists, vres, stopReq, tree, examined, version, normalized,
             deps, graph, analysis, resolved>>
parseVars == <<registry, chosen, text, extracted, analysed>>
vars == <<envVars, cfgVars, cacheVars, scanVars, histVars, auxVars, parseVars>>

\* ------------------------------------------------------------ pure parts

EmptyTable == [p \in {} |-> 0]

\* the elements of a list
Range(q) == {q[i] : i \in DOMAIN q}

\* Body applied to value, value being computed once
With(value, Body(_)) == CHOOSE bodyValue \in {Body(v) : v \in {value}} : TRUE

\* A file that holds a complete JSON table / a file cut short.
Complete(table) == [ok |-> TRUE, table |-> table]
Torn == [ok |-> FALSE, table |-> EmptyTable]

\* hashFile: hex SHA-256 of the content, or an error when it cannot be opened.
hashFile(p) ==
    IF exists[p] /\ readable[p] THEN [err |-> FALSE, hash |-> <<"sha256", content[p]>>]
    ELSE [err |-> TRUE, hash |-> <<>>]

Miss == [ok |-> FALSE, deps |-> <<>>]

\* variant: an entry exactly as old as the window already counts as stale
CacheGet_StaleAtWindow(p) ==
    LET h == hashFile(p) IN
    IF h.err THEN Miss
    ELSE IF p \notin DOMAIN entries THEN Miss
    ELSE IF entries[p].hash # h.hash THEN Miss
    ELSE IF now - entries[p].updateTime >= StaleWindow THEN Miss
    ELSE [ok |-> TRUE, deps |-> entries[p].deps]

\* variant: the hash comparison is inverted
CacheGet_HashInverted(p) ==
    LET h == hashFile(p) IN
    IF h.err THEN Miss
    ELSE IF p \notin DOMAIN entries THEN Miss
    ELSE IF entries[p].hash = h.hash THEN Miss
    ELSE IF now - entries[p].updateTime > StaleWindow THEN Miss
    ELSE [ok |-> TRUE, deps |-> entries[p].deps]

\* The body of Cache.Get, between RLock and RUnlock.
CacheGet(p) ==
    LET h == hashFile(p) IN
    IF h.err THEN Miss
    ELSE IF p \notin DOMAIN entries THEN Miss
    ELSE IF entries[p].hash # h.hash THEN Miss
    ELSE IF now - entries[p].updateTime > StaleWindow THEN Miss
    ELSE [ok |-> TRUE, deps |-> entries[p].deps]

\* c.entries[path] = CacheEntry{...}
PutEntry(table, p, e) == [q \in DOMAIN table \cup {p} |-> IF q = p THEN e ELSE table[q]]

\* json.MarshalIndent(c.entries) and json.Unmarshal(data, &c.entries)
Marshal(table) == Complete(table)
Unmarshal(data, into) ==
    IF data.ok
    THEN [q \in DOMAIN into \cup DOMAIN data.table |->
            IF q \in DOMAIN data.table THEN data.table[q] ELSE into[q]]
    ELSE into

\* NewCache: an empty map, then load() (whose error is dropped).
NewCache == Unmarshal(disk, EmptyTable)

\* The records the extractor of file f returns for content c.
Extract(f, c) == <<10 * f + c, SharedRecord>>

\* variant: the record replaces the list instead of being appended
AddDependency_Overwrite(r, dep) ==
    [r EXCEPT !.Dependencies = <<dep>>, !.TotalDeps = @ + 1]

\* DependencyResult.AddDependency
AddDependency(r, dep) ==
    [r EXCEPT !.Dependencies = Append(@, dep), !.TotalDeps = @ + 1]

\* the loop of Scanner.addDependencies
RECURSIVE AddAll(_, _)
AddAll(r, ds) ==
    IF ds = <<>> THEN r ELSE AddAll(AddDependency(r, Head(ds)), Tail(ds))

\* NewDependencyResult
NewDependencyResult == [Dependencies |-> <<>>, TotalDeps |-> 0, Errors |-> <<>>]

\* NewScanner: MaxWorkers <= 0 becomes 10
EffMaxWorkers == IF maxWorkersCfg <= 0 THEN DefaultMaxWorkers ELSE maxWorkersCfg

\* the goroutines that hold a slot of sem
Holding == {f \in Files : wpc[f] \notin {"none", "done"}}

\* variant: the walker does not wait for a slot of sem
SemFree_Unbounded == TRUE

\* sem <- struct{}{} can proceed
SemFree == Cardinality(Holding) < EffMaxWorkers

\* variant: the worker closure returns the extractor's error
WorkerReturn_Propagate(extractFailed) == extractFailed

\* what the worker closure returns to the errgroup when Extract failed
WorkerReturn(extractFailed) == FALSE

\* variant: Set does not take the write lock
CanLock_NoLock == TRUE

\* Cache.mu can be taken for writing / for reading
CanLock == rwWriter = NoThread /\ rwReaders = {}
CanRLock == rwWriter = NoThread


\* ---------------------------------------------------------------- Cache

\* Cache.Get: c.mu.RLock()
CacheGetRLock(t) ==
    /\ cpc[t] = "get_rlock"
    /\ CanRLock
    /\ rwReaders' = rwReaders \cup {t}
    /\ cpc' = [cpc EXCEPT ![t] = "get_body"]
    /\ UNCHANGED <<entries, rwWriter, cop, buf, gres, sres>>
    /\ UNCHANGED <<envVars, cfgVars, auxVars, parseVars, scanVars, histVars>>

\* Cache.Get: the body and the deferred RUnlock
CacheGetBody(t) ==
    /\ cpc[t] = "get_body"
    /\ gres' = [gres EXCEPT ![t] = CacheGet(cop[t].path)]
    /\ rwReaders' = rwReaders \ {t}
    /\ cpc' = [cpc EXCEPT ![t] = "ret"]
    /\ UNCHANGED <<entries, rwWriter, cop, buf, sres>>
    /\ UNCHANGED <<envVars, cfgVars, auxVars, parseVars, scanVars, histVars>>

\* Cache.Set: c.mu.Lock(), hashFile, the map update, and save() up to the
\* point where os.WriteFile has opened cache.json with O_TRUNC.
CacheSetBegin(t) ==
    /\ cpc[t] = "set_lock"
    /\ CanLock
    /\ LET p == cop[t].path
           h == hashFile(p)
           e == [hash |-> h.hash, updateTime |-> now, deps |-> cop[t].deps]
       IN
       \/ \* hashFile failed: return err, nothing changed
          /\ h.err
          /\ sres' = [sres EXCEPT ![t] = TRUE]
          /\ cpc' = [cpc EXCEPT ![t] = "ret"]
          /\ UNCHANGED <<entries, rwWriter, buf, disk, setLog, lastSave>>
       \/ \* entry stored; MkdirAll or the open of cache.json fails
          /\ ~h.err
          /\ entries' = PutEntry(entries, p, e)
          /\ setLog' = [setLog EXCEPT ![p] =
                 [set |-> TRUE, content |-> content[p], time |-> now,
                  deps |-> cop[t].deps]]
          /\ sres' = [sres EXCEPT ![t] = TRUE]
          /\ cpc' = [cpc EXCEPT ![t] = "ret"]
          /\ lastSave' = "fail"
          /\ UNCHANGED <<rwWriter, buf, disk>>
       \/ \* entry stored; table marshalled; cache.json opened and truncated
          /\ ~h.err
          /\ entries' = PutEntry(entries, p, e)
          /\ setLog' = [setLog EXCEPT ![p] =
                 [set |-> TRUE, content |-> content[p], time |-> now,
                  deps |-> cop[t].deps]]
          /\ buf' = [buf EXCEPT ![t] = Marshal(entries')]
          /\ disk' = Torn
          /\ rwWriter' = t
          /\ cpc' = [cpc EXCEPT ![t] = "set_write"]
          /\ UNCHANGED <<sres, lastSave>>
    /\ UNCHANGED <<rwReaders, cop, gres>>
    /\ UNCHANGED <<kind, content, readable, now>>
    /\ UNCHANGED <<cfgVars, auxVars, parseVars, scanVars>>
    /\ UNCHANGED <<out, hit, prevStored, prevScanned, prevAt, scanAt,
                   scanContent, prevContent, loaded,
                   opsLeft, other>>

\* Cache.Set: os.WriteFile writes the data (or fails part-way), save returns,
\* the deferred Unlock runs.
CacheSetWrite(t) ==
    /\ cpc[t] = "set_write"
    /\ \/ /\ disk' = buf[t]
          /\ sres' = [sres EXCEPT ![t] = FALSE]
          /\ lastSave' = "ok"
       \/ /\ disk' = Torn
          /\ sres' = [sres EXCEPT ![t] = TRUE]
          /\ lastSave' = "fail"
    /\ rwWriter' = NoThread
    /\ buf' = [buf EXCEPT ![t] = Complete(EmptyTable)]
    /\ cpc' = [cpc EXCEPT ![t] = "ret"]
    /\ UNCHANGED <<entries, rwReaders, cop, gres>>
    /\ UNCHANGED <<kind, content, readable, now>>
    /\ UNCHANGED <<cfgVars, auxVars, parseVars, scanVars>>
    /\ UNCHANGED <<out, hit, prevStored, prevScanned, prevAt, scanAt,
                   scanContent, prevContent, loaded,
                   setLog, opsLeft, other>>

\* Cache.Validate, per entry: os.Stat says the path is gone, or the file
\* hashes to something else than the entry holds.
Evictable(p) ==
    \/ ~exists[p]
    \/ /\ ~hashFile(p).err
       /\ hashFile(p).hash # entries[p].hash

\* Cache.Validate, per entry: the path is there but hashFile fails, which
\* makes Validate return at once.
HashFails(p) == exists[p] /\ hashFile(p).err

\* delete(c.entries, path) for the paths of gone
Evict(table, gone) == [q \in DOMAIN table \ gone |-> table[q]]

\* Cache.Validate: c.mu.Lock(), the loop over c.entries (in the order the
\* map happens to be ranged over), and save() up to the point where
\* os.WriteFile has opened cache.json with O_TRUNC.
CacheValidateBegin(t) ==
    /\ cpc[t] = "val_lock"
    /\ CanLock
    /\ LET bad == {p \in DOMAIN entries : HashFails(p)}
           good == DOMAIN entries \ bad
       IN
       \/ \* hashFile fails on some entry: the entries ranged over before it
          \* were examined, the others were not; return err without save()
          /\ bad # {}
          /\ \E before \in SUBSET good :
                entries' = Evict(entries, {p \in before : Evictable(p)})
          /\ vres' = [vres EXCEPT ![t] = TRUE]
          /\ cpc' = [cpc EXCEPT ![t] = "ret"]
          /\ UNCHANGED <<rwWriter, buf, disk, lastSave>>
       \/ \* all entries examined; MkdirAll or the open of cache.json fails
          /\ bad = {}
          /\ entries' = Evict(entries, {p \in good : Evictable(p)})
          /\ vres' = [vres EXCEPT ![t] = TRUE]
          /\ cpc' = [cpc EXCEPT ![t] = "ret"]
          /\ lastSave' = "fail"
          /\ UNCHANGED <<rwWriter, buf, disk>>
       \/ \* all entries examined; table marshalled; cache.json truncated
          /\ bad = {}
          /\ entries' = Evict(entries, {p \in good : Evictable(p)})
          /\ buf' = [buf EXCEPT ![t] = Marshal(entries')]
          /\ disk' = Torn
          /\ rwWriter' = t
          /\ cpc' = [cpc EXCEPT ![t] = "val_write"]
          /\ UNCHANGED <<vres, lastSave>>
    /\ UNCHANGED <<rwReaders, cop, gres, sres>>
    /\ UNCHANGED <<kind, content, readable, now, exists>>
    /\ UNCHANGED <<cfgVars, scanVars>>
    /\ UNCHANGED <<stopReq, tree, examined, version, normalized,
                   deps, graph, analysis, resolved,
                   parseVars>>
    /\ UNCHANGED <<out, hit, prevStored, prevScanned, prevAt, scanAt,
                   scanContent, prevContent, loaded,
                   setLog, opsLeft, other>>

\* Cache.Validate: os.WriteFile writes the data (or fails part-way), save
\* returns, the deferred Unlock runs.
CacheValidateWrite(t) ==
    /\ cpc[t] = "val_write"
    /\ \/ /\ disk' = buf[t]
          /\ vres' = [vres EXCEPT ![t] = FALSE]
          /\ lastSave' = "ok"
       \/ /\ disk' = Torn
          /\ vres' = [vres EXCEPT ![t] = TRUE]
          /\ lastSave' = "fail"
    /\ rwWriter' = NoThread
    /\ buf' = [buf EXCEPT ![t] = Complete(EmptyTable)]
    /\ cpc' = [cpc EXCEPT ![t] = "ret"]
    /\ UNCHANGED <<entries, rwReaders, cop, gres, sres>>
    /\ UNCHANGED <<kind, content, readable, now, exists>>
    /\ UNCHANGED <<cfgVars, scanVars>>
    /\ UNCHANGED <<stopReq, tree, examined, version, normalized,
                   deps, graph, analysis, resolved,
                   parseVars>>
    /\ UNCHANGED <<out, hit, prevStored, prevScanned, prevAt, scanAt,
                   scanContent, prevContent, loaded,
                   setLog, opsLeft, other>>

\* -------------------------------------------------------------- Scanner

Quiescent == \A f \in Files : wpc[f] \in {"none", "done"}

\* f was matched by the walk of the scan that is ending
ScannedNow(f) == hit[f] \/ wpc[f] # "none"

\* NewScanner followed by the start of Scan
StartScan ==
    /\ scanPc \in {"idle", "done", "failed"}
    /\ Quiescent
    /\ scanNo < MaxScans
    /\ scanNo' = scanNo + 1
    /\ scanPc' = "walk"
    /\ walkIdx' = 1
    /\ result' = NewDependencyResult
    /\ mu' = NoThread
    /\ egErr' = FALSE
    /\ wpc' = [f \in Files |-> "none"]
    /\ local' = [f \in Files |-> <<>>]
    /\ seen' = [f \in Files |-> <<>>]
    /\ entries' = IF enableCache THEN NewCache ELSE EmptyTable
    /\ loaded' = DOMAIN entries'
    /\ cpc' = [t \in Threads |-> "idle"]
    /\ sres' = [t \in Threads |-> FALSE]
    /\ out' = [f \in Files |-> <<>>]
    /\ hit' = [f \in Files |-> FALSE]
    /\ prevStored' = [f \in Files |->
                        IF wpc[f] # "none"
                        THEN kind[f] = "ok" /\ enableCache /\ ~sres[f]
                        ELSE prevStored[f]]
    /\ prevScanned' = [f \in Files |-> prevScanned[f] \/ ScannedNow(f)]
    /\ prevAt' = [f \in Files |-> IF wpc[f] # "none" THEN scanAt ELSE prevAt[f]]
    /\ scanAt' = now
    /\ prevContent' = [f \in Files |->
                         IF ScannedNow(f) THEN scanContent[f] ELSE prevContent[f]]
    /\ scanContent' = content
    /\ UNCHANGED <<rwWriter, rwReaders, cop, buf, gres>>
    /\ UNCHANGED <<envVars, cfgVars, auxVars, parseVars, setLog, lastSave, opsLeft, other>>

\* One call of the filepath.Walk callback, up to its first blocking call,
\* or the end of the walk.
WalkVisit ==
    /\ scanPc = "walk"
    /\ \/ \* the walk is over: Scan goes on to eg.Wait()
          /\ walkIdx > NumFiles
          /\ scanPc' = "wait"
          /\ UNCHANGED <<walkIdx, cpc, cop>>
       \/ \* the walk reports an error for this entry: Scan returns it
          /\ walkIdx <= NumFiles
          /\ kind[walkIdx] = "ioerr"
          /\ scanPc' = "failed"
          /\ UNCHANGED <<walkIdx, cpc, cop>>
       \/ \* hidden, or no extractor for it
          /\ walkIdx <= NumFiles
          /\ kind[walkIdx] = "skip"
          /\ walkIdx' = walkIdx + 1
          /\ UNCHANGED <<scanPc, cpc, cop>>
       \/ \* a manifest, cache enabled: s.cache.Get(path)
          /\ walkIdx <= NumFiles
          /\ kind[walkIdx] \in {"ok", "fail"}
          /\ enableCache
          /\ scanPc' = "get"
          /\ cpc' = [cpc EXCEPT ![Walker] = "get_rlock"]
          /\ cop' = [cop EXCEPT ![Walker] =
                       [op |-> "get", path |-> walkIdx, deps |-> <<>>]]
          /\ UNCHANGED walkIdx
       \/ \* a manifest, no cache
          /\ walkIdx <= NumFiles
          /\ kind[walkIdx] \in {"ok", "fail"}
          /\ ~enableCache
          /\ scanPc' = "dispatch"
          /\ UNCHANGED <<walkIdx, cpc, cop>>
    /\ UNCHANGED <<entries, rwWriter, rwReaders, buf, gres, sres>>
    /\ UNCHANGED <<scanNo, result, mu, egErr, wpc, local, seen>>
    /\ UNCHANGED <<envVars, cfgVars, auxVars, parseVars, histVars>>

\* After Get returned: on a hit addDependencies takes s.mu, on a miss the
\* callback goes on to dispatch.
WalkCacheResult ==
    /\ scanPc = "get"
    /\ cpc[Walker] = "ret"
    /\ \/ /\ gres[Walker].ok
          /\ mu = NoThread
          /\ mu' = Walker
          /\ scanPc' = "hitadd"
          /\ hit' = [hit EXCEPT ![walkIdx] = TRUE]
          /\ out' = [out EXCEPT ![walkIdx] = gres[Walker].deps]
       \/ /\ ~gres[Walker].ok
          /\ scanPc' = "dispatch"
          /\ UNCHANGED <<mu, hit, out>>
    /\ cpc' = [cpc EXCEPT ![Walker] = "idle"]
    /\ UNCHANGED <<entries, rwWriter, rwReaders, cop, buf, gres, sres>>
    /\ UNCHANGED <<scanNo, walkIdx, result, egErr, wpc, local, seen>>
    /\ UNCHANGED <<envVars, cfgVars, auxVars, parseVars>>
    /\ UNCHANGED <<prevStored, prevScanned, prevAt, scanAt,
                   scanContent, prevContent, loaded, setLog,
                   lastSave, opsLeft, other>>

\* addDependencies(deps) of a cache hit, under s.mu; the callback returns nil
WalkHitAdd ==
    /\ scanPc = "hitadd"
    /\ result' = AddAll(result, gres[Walker].deps)
    /\ mu' = NoThread
    /\ walkIdx' = walkIdx + 1
    /\ scanPc' = "walk"
    /\ UNCHANGED <<scanNo, egErr, wpc, local, seen>>
    /\ UNCHANGED <<envVars, cfgVars, auxVars, parseVars, cacheVars, histVars>>

\* sem <- struct{}{} and eg.Go(...); the callback returns nil
WalkDispatch ==
    /\ scanPc = "dispatch"
    /\ SemFree
    /\ wpc' = [wpc EXCEPT ![walkIdx] = "extract"]
    /\ walkIdx' = walkIdx + 1
    /\ scanPc' = "walk"
    /\ UNCHANGED <<scanNo, result, mu, egErr, local, seen>>
    /\ UNCHANGED <<envVars, cfgVars, auxVars, parseVars, cacheVars, histVars>>

\* eg.Wait() returns; Scan returns its error or nil
ScanWait ==
    /\ scanPc = "wait"
    /\ Quiescent
    /\ scanPc' = IF egErr THEN "failed" ELSE "done"
    /\ UNCHANGED <<scanNo, walkIdx, result, mu, egErr, wpc, local, seen>>
    /\ UNCHANGED <<envVars, cfgVars, auxVars, parseVars, cacheVars, histVars>>

\* worker: ext.Extract() returns
WorkerExtract(f) ==
    /\ wpc[f] = "extract"
    /\ \/ /\ kind[f] = "fail"
          /\ wpc' = [wpc EXCEPT ![f] = "adderr"]
          /\ UNCHANGED <<local, out, cpc, cop>>
       \/ /\ kind[f] = "ok"
          /\ local' = [local EXCEPT ![f] = Extract(f, content[f])]
          /\ out' = [out EXCEPT ![f] = Extract(f, content[f])]
          /\ IF enableCache
             THEN /\ wpc' = [wpc EXCEPT ![f] = "set"]
                  /\ cpc' = [cpc EXCEPT ![f] = "set_lock"]
                  /\ cop' = [cop EXCEPT ![f] =
                               [op |-> "set", path |-> f,
                                deps |-> Extract(f, content[f])]]
             ELSE /\ wpc' = [wpc EXCEPT ![f] = "lock"]
                  /\ UNCHANGED <<cpc, cop>>
    /\ UNCHANGED <<entries, rwWriter, rwReaders, buf, gres, sres>>
    /\ UNCHANGED <<scanNo, scanPc, walkIdx, result, mu, egErr, seen>>
    /\ UNCHANGED <<envVars, cfgVars, auxVars, parseVars>>
    /\ UNCHANGED <<hit, prevStored, prevScanned, prevAt, scanAt,
                   scanContent, prevContent, loaded, setLog,
                   lastSave, opsLeft, other>>

\* worker: s.result.AddError(...) reads r.Errors (s.mu is not taken)
WorkerAddErrorLoad(f) ==
    /\ wpc[f] = "adderr"
    /\ seen' = [seen EXCEPT ![f] = result.Errors]
    /\ wpc' = [wpc EXCEPT ![f] = "adderr_w"]
    /\ UNCHANGED <<scanNo, scanPc, walkIdx, result, mu, egErr, local>>
    /\ UNCHANGED <<envVars, cfgVars, auxVars, parseVars, cacheVars, histVars>>

\* worker: AddError stores the appended slice; the closure returns and the
\* deferred <-sem runs
WorkerAddErrorStore(f) ==
    /\ wpc[f] = "adderr_w"
    /\ result' = [result EXCEPT !.Errors = Append(seen[f], f)]
    /\ egErr' = (egErr \/ WorkerReturn(TRUE))
    /\ wpc' = [wpc EXCEPT ![f] = "done"]
    /\ UNCHANGED <<scanNo, scanPc, walkIdx, mu, local, seen>>
    /\ UNCHANGED <<envVars, cfgVars, auxVars, parseVars, cacheVars, histVars>>

\* worker: Set has returned (its error is dropped), or the cache is off;
\* addDependencies takes s.mu
WorkerLock(f) ==
    /\ \/ wpc[f] = "lock"
       \/ wpc[f] = "set" /\ cpc[f] = "ret"
    /\ mu = NoThread
    /\ mu' = f
    /\ wpc' = [wpc EXCEPT ![f] = "add"]
    /\ cpc' = [cpc EXCEPT ![f] = "idle"]
    /\ UNCHANGED <<entries, rwWriter, rwReaders, cop, buf, gres, sres>>
    /\ UNCHANGED <<scanNo, scanPc, walkIdx, result, egErr, local, seen>>
    /\ UNCHANGED <<envVars, cfgVars, auxVars, parseVars, histVars>>

\* worker: the loop of addDependencies, the deferred Unlock, return nil and
\* the deferred <-sem
WorkerAdd(f) ==
    /\ wpc[f] = "add"
    /\ result' = AddAll(result, local[f])
    /\ mu' = NoThread
    /\ egErr' = (egErr \/ WorkerReturn(FALSE))
    /\ wpc' = [wpc EXCEPT ![f] = "done"]
    /\ UNCHANGED <<scanNo, scanPc, walkIdx, local, seen>>
    /\ UNCHANGED <<envVars, cfgVars, auxVars, parseVars, cacheVars, histVars>>

\* ---------------------------------------------------------- environment

TickDays == {StaleWindow, StaleWindow + 1}

\* time passes while no scan runs
Tick ==
    /\ scanPc \in {"idle", "done", "failed"}
    /\ Quiescent
    /\ \E d \in TickDays :
          /\ now + d <= MaxClock
          /\ now' = now + d
    /\ UNCHANGED <<kind, content, readable, disk>>
    /\ UNCHANGED <<cfgVars, auxVars, parseVars, cacheVars, scanVars, histVars>>

\* a file is rewritten with other content while no scan runs
Modify(f) ==
    /\ scanPc \in {"idle", "done", "failed"}
    /\ Quiescent
    /\ content' = [content EXCEPT ![f] = 1 - @]
    /\ UNCHANGED <<kind, readable, now, disk>>
    /\ UNCHANGED <<cfgVars, auxVars, parseVars, cacheVars, scanVars, histVars>>

\* a file becomes unreadable, or readable again (cache harness)
Chmod(f) ==
    /\ readable' = [readable EXCEPT ![f] = ~@]
    /\ UNCHANGED <<kind, content, now, disk>>
    /\ UNCHANGED <<cfgVars, auxVars, parseVars, cacheVars, scanVars, histVars>>

\* a file is deleted, or created again with the content it had
Remove(f) ==
    /\ exists' = [exists EXCEPT ![f] = ~@]
    /\ UNCHANGED <<envVars, cfgVars, cacheVars, scanVars, histVars>>
    /\ UNCHANGED <<vres, stopReq, tree, examined, version, normalized,
                   deps, graph, analysis, resolved,
                   parseVars>>

\* ---------------------------------------------------------- scan system

NoLog == [set |-> FALSE, content |-> 0, time |-> 0, deps |-> <<>>]

\* the analyzer, the resolver and the walk of a tree are not in use
NoTree == [root |-> <<>>, parent |-> <<>>, name |-> <<>>, dir |-> <<>>]
NoGraph == [nodes |-> <<>>, edges |-> <<>>]
NotRun == [done |-> FALSE]

ParseIdle ==
    /\ registry = {}
    /\ chosen = NotRun
    /\ text = <<>>
    /\ extracted = <<>>
    /\ analysed = <<>>

PureIdle ==
    /\ tree = NoTree
    /\ examined = NotRun
    /\ version = <<>>
    /\ normalized = NotRun
    /\ deps = <<>>
    /\ graph = NoGraph
    /\ analysis = NotRun
    /\ resolved = NotRun
    /\ ParseIdle

InitCommon ==
    /\ content = [f \in Files |-> 0]
    /\ readable = [f \in Files |-> TRUE]
    /\ now = 0
    /\ disk = Complete(EmptyTable)
    /\ entries = EmptyTable
    /\ rwWriter = NoThread
    /\ rwReaders = {}
    /\ cpc = [t \in Threads |-> "idle"]
    /\ cop = [t \in Threads |-> [op |-> "get", path |-> 1, deps |-> <<>>]]
    /\ buf = [t \in Threads |-> Complete(EmptyTable)]
    /\ gres = [t \in Threads |-> Miss]
    /\ sres = [t \in Threads |-> FALSE]
    /\ scanNo = 0
    /\ scanPc = "idle"
    /\ walkIdx = 1
    /\ result = NewDependencyResult
    /\ mu = NoThread
    /\ egErr = FALSE
    /\ wpc = [f \in Files |-> "none"]
    /\ local = [f \in Files |-> <<>>]
    /\ seen = [f \in Files |-> <<>>]
    /\ out = [f \in Files |-> <<>>]
    /\ hit = [f \in Files |-> FALSE]
    /\ prevStored = [f \in Files |-> FALSE]
    /\ prevScanned = [f \in Files |-> FALSE]
    /\ prevAt = [f \in Files |-> 0]
    /\ prevContent = [f \in Files |-> 0]
    /\ loaded = {}
    /\ setLog = [f \in Files |-> NoLog]
    /\ lastSave = "none"
    /\ other = [err |-> FALSE, paths |-> {}]
    /\ scanAt = 0
    /\ scanContent = [f \in Files |-> 0]
    /\ exists = [f \in Files |-> TRUE]
    /\ vres = [t \in Threads |-> FALSE]
    /\ stopReq = 0

Init ==
    /\ InitCommon
    /\ PureIdle
    /\ kind \in [Files -> Kinds]
    /\ maxWorkersCfg \in -1..MaxCfgWorkers
    /\ enableCache \in BOOLEAN
    /\ opsLeft = [t \in Files |-> 0]

CacheStep ==
    \E t \in Threads :
        \/ CacheGetRLock(t)
        \/ CacheGetBody(t)
        \/ CacheSetBegin(t)
        \/ CacheSetWrite(t)

WorkerStep ==
    \E f \in Files :
        \/ WorkerExtract(f)
        \/ WorkerAddErrorLoad(f)
        \/ WorkerAddErrorStore(f)
        \/ WorkerLock(f)
        \/ WorkerAdd(f)

Next ==
    \/ StartScan
    \/ WalkVisit
    \/ WalkCacheResult
    \/ WalkHitAdd
    \/ WalkDispatch
    \/ ScanWait
    \/ WorkerStep
    \/ CacheStep

Spec == Init /\ [][Next]_vars

\* ------------------------------------------------- scans one after another
\* Scans of the same tree with the cache on and one worker slot; between two
\* scans time passes and files are rewritten.

InitRescan ==
    /\ InitCommon
    /\ PureIdle
    /\ kind \in [Files -> Kinds]
    /\ maxWorkersCfg = 1
    /\ enableCache = TRUE
    /\ opsLeft = [t \in Files |-> 0]

BetweenScans ==
    /\ scanNo > 0
    /\ scanNo < MaxScans
    /\ \/ Tick
       \/ \E f \in Files : Modify(f)

NextRescan ==
    \/ Next
    \/ BetweenScans

SpecRescan == InitRescan /\ [][NextRescan]_vars

\* ----------------------------------------------------------- cache harness
\* Threads call Get and Set on one Cache.

CallGet(t, p) ==
    /\ cpc[t] \in {"idle", "ret"}
    /\ opsLeft[t] > 0
    /\ opsLeft' = [opsLeft EXCEPT ![t] = @ - 1]
    /\ cpc' = [cpc EXCEPT ![t] = "get_rlock"]
    /\ cop' = [cop EXCEPT ![t] = [op |-> "get", path |-> p, deps |-> <<>>]]
    /\ gres' = [gres EXCEPT ![t] = Miss]
    /\ sres' = [sres EXCEPT ![t] = FALSE]
    /\ UNCHANGED <<entries, rwWriter, rwReaders, buf>>
    /\ UNCHANGED <<envVars, cfgVars, auxVars, parseVars, scanVars>>
    /\ UNCHANGED <<out, hit, prevStored, prevScanned, prevAt, scanAt,
                   scanContent, prevContent, loaded,
                   setLog, lastSave, other>>

CallSet(t, p) ==
    /\ cpc[t] \in {"idle", "ret"}
    /\ opsLeft[t] > 0
    /\ opsLeft' = [opsLeft EXCEPT ![t] = @ - 1]
    /\ cpc' = [cpc EXCEPT ![t] = "set_lock"]
    /\ cop' = [cop EXCEPT ![t] =
                 [op |-> "set", path |-> p, deps |-> Extract(p, content[p])]]
    /\ gres' = [gres EXCEPT ![t] = Miss]
    /\ sres' = [sres EXCEPT ![t] = FALSE]
    /\ UNCHANGED <<entries, rwWriter, rwReaders, buf>>
    /\ UNCHANGED <<envVars, cfgVars, auxVars, parseVars, scanVars>>
    /\ UNCHANGED <<out, hit, prevStored, prevScanned, prevAt, scanAt,
                   scanContent, prevContent, loaded,
                   setLog, lastSave, other>>

\* NewCache() in another process: load() reads cache.json as it is now
OtherLoad ==
    /\ other' = [err |-> ~disk.ok,
                 paths |-> DOMAIN Unmarshal(disk, EmptyTable)]
    /\ UNCHANGED <<envVars, cfgVars, auxVars, parseVars, cacheVars, scanVars>>
    /\ UNCHANGED <<out, hit, prevStored, prevScanned, prevAt, scanAt,
                   scanContent, prevContent, loaded,
                   setLog, lastSave, opsLeft>>

\* Concurrent harness: every thread works on its own path, and another
\* process constructs a Cache on the same cache directory.
InitCache ==
    /\ InitCommon
    /\ PureIdle
    /\ kind = [f \in Files |-> "ok"]
    /\ maxWorkersCfg = 0
    /\ enableCache = TRUE
    /\ opsLeft = [t \in Files |-> MaxOps]

NextCache ==
    \/ \E t \in Files : CallGet(t, t)
    \/ \E t \in Files : CallSet(t, t)
    \/ \E t \in Files : CacheGetRLock(t)
    \/ \E t \in Files : CacheGetBody(t)
    \/ \E t \in Files : CacheSetBegin(t)
    \/ \E t \in Files : CacheSetWrite(t)
    \/ OtherLoad

SpecCache == InitCache /\ [][NextCache]_vars

\* Sequential harness: one thread calls Get and Set on any path while time
\* passes and files are rewritten or become unreadable.
SeqThread == 1

InitCacheSeq ==
    /\ InitCommon
    /\ PureIdle
    /\ kind = [f \in Files |-> "ok"]
    /\ maxWorkersCfg = 0
    /\ enableCache = TRUE
    /\ opsLeft = [t \in Files |-> IF t = SeqThread THEN MaxOps ELSE 0]

NextCacheSeq ==
    \/ \E p \in Files : CallGet(SeqThread, p)
    \/ \E p \in Files : CallSet(SeqThread, p)
    \/ CacheGetRLock(SeqThread)
    \/ CacheGetBody(SeqThread)
    \/ CacheSetBegin(SeqThread)
    \/ CacheSetWrite(SeqThread)
    \/ Tick
    \/ \E f \in Files : Modify(f)
    \/ \E f \in Files : Chmod(f)

SpecCacheSeq == InitCacheSeq /\ [][NextCacheSeq]_vars

\* ------------------------------------------------------- Validate harness
\* One thread fills the cache and calls Validate; between two calls files
\* are rewritten, deleted or made unreadable.

CallValidate(t) ==
    /\ cpc[t] \in {"idle", "ret"}
    /\ cpc' = [cpc EXCEPT ![t] = "val_lock"]
    /\ cop' = [cop EXCEPT ![t] = [op |-> "validate", path |-> 1, deps |-> <<>>]]
    /\ gres' = [gres EXCEPT ![t] = Miss]
    /\ sres' = [sres EXCEPT ![t] = FALSE]
    /\ vres' = [vres EXCEPT ![t] = FALSE]
    /\ UNCHANGED <<entries, rwWriter, rwReaders, buf>>
    /\ UNCHANGED <<envVars, cfgVars, scanVars, histVars>>
    /\ UNCHANGED <<exists, stopReq, tree, examined, version, normalized,
                   deps, graph, analysis, resolved,
                   parseVars>>

BetweenCalls ==
    /\ cpc[SeqThread] \in {"idle", "ret"}
    /\ \E f \in Files :
          \/ Modify(f)
          \/ Chmod(f)
          \/ Remove(f)

InitValidate ==
    /\ InitCommon
    /\ PureIdle
    /\ kind = [f \in Files |-> "ok"]
    /\ maxWorkersCfg = 0
    /\ enableCache = TRUE
    /\ opsLeft = [t \in Files |-> IF t = SeqThread THEN MaxOps ELSE 0]

NextValidate ==
    \/ \E p \in Files : CallSet(SeqThread, p)
    \/ CallValidate(SeqThread)
    \/ CacheSetBegin(SeqThread)
    \/ CacheSetWrite(SeqThread)
    \/ CacheValidateBegin(SeqThread)
    \/ CacheValidateWrite(SeqThread)
    \/ BetweenCalls

SpecValidate == InitValidate /\ [][NextValidate]_vars

\* ------------------------------------------------------ persistence harness
\* One thread calls Set, RemoveExpired, Validate and Clear; between two
\* calls time passes and files are rewritten, deleted or made unreadable.

\* Cache.RemoveExpired: the entries older than seven days are deleted and,
\* when there was one, save() is called and its error dropped
CacheRemoveExpired(t) ==
    /\ cpc[t] \in {"idle", "ret"}
    /\ CanLock
    /\ LET expired == {p \in DOMAIN entries :
                          now - entries[p].updateTime > StaleWindow}
       IN
       /\ entries' = Evict(entries, expired)
       /\ \/ \* nothing expired: no save
             /\ expired = {}
             /\ UNCHANGED <<disk, lastSave>>
          \/ \* MkdirAll or the open of cache.json fails
             /\ expired # {}
             /\ lastSave' = "fail"
             /\ UNCHANGED disk
          \/ \* os.WriteFile fails part-way
             /\ expired # {}
             /\ disk' = Torn
             /\ lastSave' = "fail"
          \/ \* the table is written
             /\ expired # {}
             /\ disk' = Marshal(entries')
             /\ lastSave' = "ok"
    /\ cpc' = [cpc EXCEPT ![t] = "ret"]
    /\ cop' = [cop EXCEPT ![t] = [op |-> "remove_expired", path |-> 1, deps |-> <<>>]]
    /\ UNCHANGED <<rwWriter, rwReaders, buf, gres, sres>>
    /\ UNCHANGED <<kind, content, readable, now>>
    /\ UNCHANGED <<cfgVars, auxVars, parseVars, scanVars>>
    /\ UNCHANGED <<out, hit, prevStored, prevScanned, prevAt, scanAt,
                   scanContent, prevContent, loaded,
                   setLog, opsLeft, other>>

\* Cache.Clear: a new map, then os.RemoveAll(c.dir), whose error is
\* returned; a failed RemoveAll may have removed cache.json or not
CacheClear(t) ==
    /\ cpc[t] \in {"idle", "ret"}
    /\ CanLock
    /\ entries' = EmptyTable
    /\ \/ /\ disk' = Complete(EmptyTable)
          /\ sres' = [sres EXCEPT ![t] = FALSE]
       \/ /\ disk' \in {disk, Complete(EmptyTable)}
          /\ sres' = [sres EXCEPT ![t] = TRUE]
    /\ cpc' = [cpc EXCEPT ![t] = "ret"]
    /\ cop' = [cop EXCEPT ![t] = [op |-> "clear", path |-> 1, deps |-> <<>>]]
    /\ UNCHANGED <<rwWriter, rwReaders, buf, gres>>
    /\ UNCHANGED <<kind, content, readable, now>>
    /\ UNCHANGED <<cfgVars, auxVars, parseVars, scanVars>>
    /\ UNCHANGED <<out, hit, prevStored, prevScanned, prevAt, scanAt,
                   scanContent, prevContent, loaded,
                   setLog, lastSave, opsLeft, other>>

NextPersist ==
    \/ \E p \in Files : CallSet(SeqThread, p)
    \/ CallValidate(SeqThread)
    \/ CacheSetBegin(SeqThread)
    \/ CacheSetWrite(SeqThread)
    \/ CacheValidateBegin(SeqThread)
    \/ CacheValidateWrite(SeqThread)
    \/ CacheRemoveExpired(SeqThread)
    \/ CacheClear(SeqThread)
    \/ BetweenCalls
    \/ Tick

SpecPersist == InitValidate /\ [][NextPersist]_vars

\* ------------------------------------------------------------ stop request
\* The web server runs Scanner.Scan in a goroutine of handleScan and answers
\* POST /api/scan/{id}/stop in handleStopScan.

\* ScanResult.Status as handleScan sets it: "running" when the scan is
\* created, "failed" when Scan returns an error, "completed" at the end.
ScanStatus ==
    IF scanPc = "failed" THEN "failed"
    ELSE IF scanPc = "done" THEN "completed"
    ELSE "running"

\* handleStopScan for the scan in progress: it reads the id and answers
\* {"status": "stopped"}; neither the ScanResult nor the Scanner is touched.
HandleStopScan ==
    /\ scanNo > 0
    /\ ScanStatus = "running"
    /\ stopReq # scanNo
    /\ stopReq' = scanNo
    /\ UNCHANGED <<envVars, cfgVars, cacheVars, scanVars, histVars>>
    /\ UNCHANGED <<exists, vres, tree, examined, version, normalized,
                   deps, graph, analysis, resolved,
                   parseVars>>

NextStop ==
    \/ Next
    \/ HandleStopScan

SpecStop == Init /\ [][NextStop]_vars

\* ------------------------------------------------------- walk of the tree
\* What filepath.Walk(TargetDir, callback) visits.  File names are sequences
\* of characters.  A tree is target_dir (entry 0, named tree.root) and the
\* entries 1..Len(tree.parent) below it, each with its parent directory, its
\* name and whether it is a directory; parents come before their children.

MaxEntries == 3          \* entries below target_dir

\* names target_dir is given by: ".", "a", ".a"
RootNames == {<<".">>, <<"a">>, <<".", "a">>}
\* names of the entries below it: "a", ".a"
EntryNames == {<<"a">>, <<".", "a">>}

\* strings.HasPrefix
HasPrefix(str, prefix) ==
    /\ Len(str) >= Len(prefix)
    /\ SubSeq(str, 1, Len(prefix)) = prefix

\* utils.IsHidden (GOOS other than windows)
IsHidden(name) == HasPrefix(name, <<".">>)

\* info.Name() and info.IsDir() of entry n; entry 0 is target_dir itself
EntryName(t, n) == IF n = 0 THEN t.root ELSE t.name[n]
EntryIsDir(t, n) == n = 0 \/ t.dir[n]

\* the callback's answer for entry n is filepath.SkipDir
SkipsDir(t, n) == IsHidden(EntryName(t, n)) /\ EntryIsDir(t, n)

\* filepath.Walk calls the callback for entry n: for target_dir, and for
\* the entries of a directory it was called for and that was not skipped
RECURSIVE WalkCalls(_, _)
WalkCalls(t, n) ==
    IF n = 0 THEN TRUE
    ELSE /\ WalkCalls(t, t.parent[n])
         /\ ~SkipsDir(t, t.parent[n])

\* the files for which the callback gets as far as detectFileType
WalkTree(t) ==
    {n \in 1..Len(t.parent) :
        /\ WalkCalls(t, n)
        /\ ~IsHidden(EntryName(t, n))
        /\ ~EntryIsDir(t, n)}

\* the trees of k entries below target_dir
RECURSIVE TreesOf(_)
TreesOf(k) ==
    IF k = 0
    THEN {[root |-> r, parent |-> <<>>, name |-> <<>>, dir |-> <<>>] :
             r \in RootNames}
    ELSE UNION {
           {[root |-> t.root,
             parent |-> Append(t.parent, p),
             name |-> Append(t.name, nm),
             dir |-> Append(t.dir, isDir)] :
                p \in {q \in 0..(k - 1) : EntryIsDir(t, q)},
                nm \in EntryNames,
                isDir \in BOOLEAN} :
           t \in TreesOf(k - 1)}

Trees == UNION {TreesOf(k) : k \in 0..MaxEntries}

\* everything but the walk is at rest
ScanIdle ==
    /\ InitCommon
    /\ kind = [f \in Files |-> "skip"]
    /\ maxWorkersCfg = 0
    /\ enableCache = FALSE
    /\ opsLeft = [t \in Files |-> 0]

InitWalk ==
    /\ ScanIdle
    /\ tree \in Trees
    /\ examined = NotRun
    /\ version = <<>>
    /\ normalized = NotRun
    /\ deps = <<>>
    /\ graph = NoGraph
    /\ analysis = NotRun
    /\ resolved = NotRun
    /\ ParseIdle

\* Scan walks the tree
ScanWalk ==
    /\ ~examined.done
    /\ examined' = [done |-> TRUE, files |-> WalkTree(tree)]
    /\ UNCHANGED <<envVars, cfgVars, cacheVars, scanVars, histVars>>
    /\ UNCHANGED <<exists, vres, stopReq, tree, version, normalized,
                   deps, graph, analysis, resolved,
                   parseVars>>

NextWalk == ScanWalk

SpecWalk == InitWalk /\ [][NextWalk]_vars

\* ---------------------------------------------------- version normalization
\* Version strings are sequences of characters.

MaxPieces == 3           \* pieces a version string is put together from

\* "v", ">=", "branch=", "commit=", "...", ".", "1", "2"
Pieces ==
    {<<"v">>, <<">", "=">>,
     <<"b", "r", "a", "n", "c", "h", "=">>,
     <<"c", "o", "m", "m", "i", "t", "=">>,
     <<".", ".", ".">>, <<".">>, <<"1">>, <<"2">>}

RECURSIVE StringsOf(_)
StringsOf(k) ==
    IF k = 0 THEN {<<>>}
    ELSE {str \o piece : str \in StringsOf(k - 1), piece \in Pieces}

VersionStrings == UNION {StringsOf(k) : k \in 0..MaxPieces}

\* version[n:]
DropPrefix(str, n) == SubSeq(str, n + 1, Len(str))

\* strings.Index: the first position at which sep occurs in str, 0 if none
Occurrences(str, sep) ==
    {i \in 1..(Len(str) - Len(sep) + 1) :
        SubSeq(str, i, i + Len(sep) - 1) = sep}
Index(str, sep) ==
    IF Occurrences(str, sep) = {} THEN 0
    ELSE CHOOSE i \in Occurrences(str, sep) :
             \A j \in Occurrences(str, sep) : i <= j

\* strings.Contains
Contains(str, sep) == Index(str, sep) # 0

\* strings.Split (sep not empty)
RECURSIVE Split(_, _)
Split(str, sep) ==
    LET i == Index(str, sep) IN
    IF i = 0 THEN <<str>>
    ELSE <<SubSeq(str, 1, i - 1)>> \o Split(DropPrefix(str, i + Len(sep) - 1), sep)

\* strings.Join
RECURSIVE Join(_, _)
Join(parts, sep) ==
    IF Len(parts) = 0 THEN <<>>
    ELSE IF Len(parts) = 1 THEN parts[1]
    ELSE parts[1] \o sep \o Join(Tail(parts), sep)

\* for len(parts) < 3 { parts = append(parts, "0") }
RECURSIVE PadParts(_)
PadParts(parts) ==
    IF Len(parts) < 3 THEN PadParts(Append(parts, <<"0">>)) ELSE parts

\* if strings.HasPrefix(version, "v") { version = version[1:] }
StripV(str) == IF HasPrefix(str, <<"v">>) THEN DropPrefix(str, 1) ELSE str

\* normalizeVersion
normalizeVersion(v) ==
    LET v1 == StripV(v) IN
    IF \/ HasPrefix(v1, <<"b", "r", "a", "n", "c", "h", "=">>)
       \/ HasPrefix(v1, <<"c", "o", "m", "m", "i", "t", "=">>)
    THEN <<"0", ".", "0", ".", "0">>
    ELSE LET v2 == IF HasPrefix(v1, <<">", "=">>) THEN DropPrefix(v1, 2) ELSE v1
             v3 == IF Contains(v2, <<".", ".", ".">>)
                   THEN Split(v2, <<".", ".", ".">>)[1]
                   ELSE v2
         IN  Join(PadParts(Split(v3, <<".">>)), <<".">>)

InitNormalize ==
    /\ ScanIdle
    /\ tree = NoTree
    /\ examined = NotRun
    /\ version \in VersionStrings
    /\ normalized = NotRun
    /\ deps = <<>>
    /\ graph = NoGraph
    /\ analysis = NotRun
    /\ resolved = NotRun
    /\ ParseIdle

\* normalizeVersion(version)
Normalize ==
    /\ ~normalized.done
    /\ normalized' = [done |-> TRUE, value |-> normalizeVersion(version)]
    /\ UNCHANGED <<envVars, cfgVars, cacheVars, scanVars, histVars>>
    /\ UNCHANGED <<exists, vres, stopReq, tree, examined, version,
                   deps, graph, analysis, resolved,
                   parseVars>>

NextNormalize == Normalize

SpecNormalize == InitNormalize /\ [][NextNormalize]_vars

\* ------------------------------------------------------ dependency analyzer
\* A record is [Name, Version, Dependencies], its Dependencies a list of
\* [Name, Version].  The graph maps a name to its node (nodes) and to the
\* list of its children's names (edges).

MaxRecords == 3          \* records handed to Analyze (graph harness)
MaxEdges == 3            \* child entries in those records, in total
MaxConflictRecords == 2  \* records handed to Analyze (version harness)
MaxConflictEdges == 1    \* child entries in those records, in total

Names == {"A", "B", "C"}
ConflictNames == {"A", "B"}
\* "1.0.0"
PlainVersions == {<<"1", ".", "0", ".", "0">>}
\* "1.0", "v1.0.0", "2.0.0", "x"
ConflictVersions ==
    {<<"1", ".", "0">>, <<"v", "1", ".", "0", ".", "0">>,
     <<"2", ".", "0", ".", "0">>, <<"x">>}
\* "2.0.0"
ConflictChildVersions == {<<"2", ".", "0", ".", "0">>}

\* lists of at most k children
RECURSIVE ChildLists(_, _, _)
ChildLists(names, versions, k) ==
    IF k = 0 THEN {<<>>}
    ELSE {<<>>} \cup
         {<<[Name |-> n, Version |-> v]>> \o rest :
            n \in names, v \in versions,
            rest \in ChildLists(names, versions, k - 1)}

\* lists of at most n records with at most e child entries in total
RECURSIVE RecordLists(_, _, _, _, _)
RecordLists(names, versions, childVersions, n, e) ==
    IF n = 0 THEN {<<>>}
    ELSE {<<>>} \cup
         UNION {
           {<<[Name |-> nm, Version |-> v, Dependencies |-> ch]>> \o rest :
              nm \in names, v \in versions,
              ch \in {c \in ChildLists(names, childVersions, e) : Len(c) = l},
              rest \in RecordLists(names, versions, childVersions,
                                   n - 1, e - l)} :
           l \in 0..e}

\* the orders in which a range over a map with key set S can run
Perms(S) ==
    {f \in [1..Cardinality(S) -> S] : \A x \in S : \E i \in DOMAIN f : f[i] = x}

\* contains
ContainsItem(slice, item) == \E i \in DOMAIN slice : slice[i] = item

\* a.graph.edges[node]
EdgesOf(g, node) == IF node \in DOMAIN g.edges THEN g.edges[node] ELSE <<>>

\* buildDependencyGraph, the node of one record
AddNode(nodes, dep) ==
    IF dep.Name \notin DOMAIN nodes
    THEN [n \in DOMAIN nodes \cup {dep.Name} |->
            IF n = dep.Name THEN [Versions |-> <<dep.Version>>] ELSE nodes[n]]
    ELSE IF ContainsItem(nodes[dep.Name].Versions, dep.Version)
    THEN nodes
    ELSE [nodes EXCEPT ![dep.Name].Versions = Append(@, dep.Version)]

\* buildDependencyGraph, the edges of one record
RECURSIVE AddEdges(_, _, _)
AddEdges(edges, parent, children) ==
    IF children = <<>> THEN edges
    ELSE LET old == IF parent \in DOMAIN edges THEN edges[parent] ELSE <<>>
         IN AddEdges(
                [n \in DOMAIN edges \cup {parent} |->
                    IF n = parent THEN Append(old, Head(children).Name)
                    ELSE edges[n]],
                parent, Tail(children))

\* buildDependencyGraph
RECURSIVE buildDependencyGraph(_, _)
buildDependencyGraph(g, records) ==
    IF records = <<>> THEN g
    ELSE buildDependencyGraph(
             [nodes |-> AddNode(g.nodes, Head(records)),
              edges |-> AddEdges(g.edges, Head(records).Name,
                                 Head(records).Dependencies)],
             Tail(records))

\* detectCycles: dfs, and its loop over the children.  st holds cycles,
\* visited and path; the result holds dfs's return value and st.
RECURSIVE CycleDfs(_, _, _, _)
RECURSIVE CycleChildren(_, _, _, _)
CycleDfs(g, st, node, currentPath) ==
    IF node \in st.path
    THEN LET starts == {i \in DOMAIN currentPath : currentPath[i] = node}
             cycleStart == CHOOSE i \in starts : \A j \in starts : i <= j
         IN [found |-> TRUE,
             st |-> IF starts = {} THEN st
                    ELSE [st EXCEPT !.cycles =
                            Append(@, SubSeq(currentPath, cycleStart,
                                             Len(currentPath)) \o <<node>>)]]
    ELSE IF node \in st.visited
    THEN [found |-> FALSE, st |-> st]
    ELSE LET r == CycleChildren(g,
                     [st EXCEPT !.visited = @ \cup {node},
                                !.path = @ \cup {node}],
                     EdgesOf(g, node), Append(currentPath, node))
         IN IF r.found THEN r
            ELSE [found |-> FALSE, st |-> [r.st EXCEPT !.path = @ \ {node}]]
CycleChildren(g, st, children, currentPath) ==
    IF children = <<>> THEN [found |-> FALSE, st |-> st]
    ELSE LET r == CycleDfs(g, st, Head(children), currentPath)
         IN IF r.found THEN r
            ELSE CycleChildren(g, r.st, Tail(children), currentPath)

\* detectCycles: the loop over a.graph.nodes, ranged over in order
RECURSIVE CycleRoots(_, _, _)
CycleRoots(g, st, order) ==
    IF order = <<>> THEN st
    ELSE IF Head(order) \in st.visited THEN CycleRoots(g, st, Tail(order))
    ELSE CycleRoots(g, CycleDfs(g, st, Head(order), <<>>).st, Tail(order))

\* detectCycles
detectCycles(g, order) ==
    CycleRoots(g, [cycles |-> <<>>, visited |-> {}, path |-> {}], order).cycles

\* calculateDependencyDepth: dfs, and its loop over the children
RECURSIVE DepthDfs(_, _, _, _)
RECURSIVE DepthChildren(_, _, _, _)
DepthDfs(g, st, node, depth) ==
    IF node \in st.visited THEN st
    ELSE DepthChildren(g,
             [visited |-> st.visited \cup {node},
              maxDepth |-> IF depth > st.maxDepth THEN depth ELSE st.maxDepth],
             EdgesOf(g, node), depth + 1)
DepthChildren(g, st, children, depth) ==
    IF children = <<>> THEN st
    ELSE DepthChildren(g, DepthDfs(g, st, Head(children), depth),
                       Tail(children), depth)

\* calculateDependencyDepth: the loop over a.graph.nodes, ranged over in order
RECURSIVE DepthRoots(_, _, _)
DepthRoots(g, st, order) ==
    IF order = <<>> THEN st
    ELSE DepthRoots(g, DepthDfs(g, st, Head(order), 0), Tail(order))

\* calculateDependencyDepth
calculateDependencyDepth(g, order) ==
    DepthRoots(g, [visited |-> {}, maxDepth |-> 0], order).maxDepth

\* ---- semver.NewVersion, Version.LessThan and Version.String as the
\* analyzer uses them, for strings of digits, dots and letters: an optional
\* "v", then one to three dot-separated numbers; what is missing is 0.

DigitChars == <<"0", "1", "2", "3", "4", "5", "6", "7", "8", "9">>
IsDigit(c) == \E d \in DOMAIN DigitChars : DigitChars[d] = c
DigitValue(c) == (CHOOSE d \in DOMAIN DigitChars : DigitChars[d] = c) - 1

RECURSIVE Atoi(_)
Atoi(str) ==
    IF str = <<>> THEN 0
    ELSE 10 * Atoi(SubSeq(str, 1, Len(str) - 1)) + DigitValue(str[Len(str)])

RECURSIVE Itoa(_)
Itoa(n) ==
    IF n < 10 THEN <<DigitChars[n + 1]>>
    ELSE Itoa(n \div 10) \o <<DigitChars[(n % 10) + 1]>>

IsNumber(str) == str # <<>> /\ \A i \in DOMAIN str : IsDigit(str[i])

NoVersion == [ok |-> FALSE, major |-> 0, minor |-> 0, patch |-> 0]

NewVersion(str) ==
    LET parts == Split(StripV(str), <<".">>) IN
    IF Len(parts) <= 3 /\ \A i \in DOMAIN parts : IsNumber(parts[i])
    THEN [ok |-> TRUE,
          major |-> Atoi(parts[1]),
          minor |-> IF Len(parts) >= 2 THEN Atoi(parts[2]) ELSE 0,
          patch |-> IF Len(parts) >= 3 THEN Atoi(parts[3]) ELSE 0]
    ELSE NoVersion

LessThan(a, b) ==
    \/ a.major < b.major
    \/ a.major = b.major /\ a.minor < b.minor
    \/ a.major = b.major /\ a.minor = b.minor /\ a.patch < b.patch

VersionString(a) ==
    Itoa(a.major) \o <<".">> \o Itoa(a.minor) \o <<".">> \o Itoa(a.patch)

\* detectVersionConflicts: the keys of versionMap and of versionMap[pkg],
\* collected from the records and from their children
VersionMapKeys(records) ==
    {records[i].Name : i \in DOMAIN records} \cup
    UNION {{records[i].Dependencies[j].Name :
               j \in DOMAIN records[i].Dependencies} : i \in DOMAIN records}
VersionsSeen(records, pkg) ==
    {records[i].Version : i \in {k \in DOMAIN records : records[k].Name = pkg}}
    \cup
    UNION {{records[i].Dependencies[j].Version :
               j \in {k \in DOMAIN records[i].Dependencies :
                         records[i].Dependencies[k].Name = pkg}} :
           i \in DOMAIN records}

\* detectVersionConflicts: the versions of versions that parse (semvers),
\* and the first and the last of them once sorted
Parseable(versions) == {v \in versions : NewVersion(normalizeVersion(v)).ok}
Semvers(versions) == {NewVersion(normalizeVersion(v)) : v \in Parseable(versions)}
Lowest(svs) == CHOOSE a \in svs : \A b \in svs : ~LessThan(b, a)
Highest(svs) == CHOOSE a \in svs : \A b \in svs : ~LessThan(a, b)

\* variant: a conflict needs more than two versions that parse
VersionsConflict_NeedsThree(versions) ==
    /\ Cardinality(versions) > 1
    /\ Cardinality(Parseable(versions)) > 2
    /\ Lowest(Semvers(versions)) # Highest(Semvers(versions))

\* detectVersionConflicts: the three conditions under which conflicts are
\* appended for a package
VersionsConflict(versions) ==
    /\ Cardinality(versions) > 1
    /\ Cardinality(Parseable(versions)) > 1
    /\ Lowest(Semvers(versions)) # Highest(Semvers(versions))

\* detectVersionConflicts: the conflicts appended for pkg, its versions
\* ranged over in the order vorder (Source and Path are left out)
ConflictsOf(records, pkg, vorder) ==
    With(VersionString(Highest(Semvers(VersionsSeen(records, pkg)))),
         LAMBDA current :
           [i \in DOMAIN vorder |->
               [Package |-> pkg, Required |-> vorder[i], Current |-> current]])

ConflictingPackages(records) ==
    {pkg \in VersionMapKeys(records) : VersionsConflict(VersionsSeen(records, pkg))}

\* detectVersionConflicts: the lists it can return with the packages ranged
\* over in the order pkgOrder, one for every order in which the versions of
\* each package can be ranged over
RECURSIVE ConflictsInOrder(_, _)
ConflictsInOrder(records, pkgOrder) ==
    IF pkgOrder = <<>> THEN {<<>>}
    ELSE {first \o rest :
            first \in {ConflictsOf(records, Head(pkgOrder), vorder) :
                          vorder \in Perms(VersionsSeen(records, Head(pkgOrder)))},
            rest \in ConflictsInOrder(records, Tail(pkgOrder))}

\* detectVersionConflicts: the lists it can return, one for every order in
\* which the two maps can be ranged over
detectVersionConflicts(records) ==
    UNION {ConflictsInOrder(records, pkgOrder) :
             pkgOrder \in Perms(ConflictingPackages(records))}

\* Analyze(records) on the analyzer's graph
AnalyzeRecords(records) ==
    /\ LET g == buildDependencyGraph(graph, records) IN
       /\ graph' = g
       /\ \E cycles \in {detectCycles(g, cycleOrder) :
                             cycleOrder \in Perms(DOMAIN g.nodes)},
             maxDepth \in {calculateDependencyDepth(g, depthOrder) :
                               depthOrder \in Perms(DOMAIN g.nodes)},
             conflicts \in detectVersionConflicts(records) :
             analysis' = [done |-> TRUE,
                          TotalDependencies |-> Len(records),
                          Cycles |-> cycles,
                          Conflicts |-> conflicts,
                          MaxDepth |-> maxDepth]
    /\ analysed' = Append(analysed, records)
    /\ UNCHANGED <<envVars, cfgVars, cacheVars, scanVars, histVars>>
    /\ UNCHANGED <<exists, vres, stopReq, tree, examined, version, normalized,
                   resolved,
                   registry, chosen, text, extracted>>

\* the first Analyze call on a new analyzer, with the records of deps
Analyze ==
    /\ ~analysis.done
    /\ AnalyzeRecords(deps)
    /\ UNCHANGED deps

\* NewDependencyAnalyzer, and the records that Analyze is called with
InitAnalyzer ==
    /\ ScanIdle
    /\ tree = NoTree
    /\ examined = NotRun
    /\ version = <<>>
    /\ normalized = NotRun
    /\ graph = NoGraph
    /\ analysis = NotRun
    /\ resolved = NotRun
    /\ ParseIdle

\* graph harness: any names and edges, one version
InitAnalyze ==
    /\ InitAnalyzer
    /\ deps \in RecordLists(Names, PlainVersions, PlainVersions,
                             MaxRecords, MaxEdges)

NextAnalyze == Analyze

SpecAnalyze == InitAnalyze /\ [][NextAnalyze]_vars

\* version harness: few names and edges, several versions
InitConflicts ==
    /\ InitAnalyzer
    /\ deps \in RecordLists(ConflictNames, ConflictVersions, ConflictChildVersions,
                             MaxConflictRecords, MaxConflictEdges)

SpecConflicts == InitConflicts /\ [][NextAnalyze]_vars

\* reuse harness: the server's analyzer, called once per scan
MaxAnalyses == 2         \* Analyze calls on the same analyzer
MaxReuseRecords == 2     \* records handed to each call
MaxReuseEdges == 1       \* child entries in those records, in total

\* Server.handleScan: the next scan's records go to the analyzer the
\* server was built with
HandleScan ==
    /\ analysis.done
    /\ Len(analysed) < MaxAnalyses
    /\ \E records \in RecordLists(ConflictNames, PlainVersions, PlainVersions,
                                    MaxReuseRecords, MaxReuseEdges) :
         /\ deps' = records
         /\ AnalyzeRecords(records)

InitReuse ==
    /\ InitAnalyzer
    /\ deps \in RecordLists(ConflictNames, PlainVersions, PlainVersions,
                             MaxReuseRecords, MaxReuseEdges)

NextReuse == Analyze \/ HandleScan

SpecReuse == InitReuse /\ [][NextReuse]_vars

\* ----------------------------------------------------------------- resolver
\* Resolver.Resolve and Resolver.topologicalSort.  The resolver's graph type
\* (NewDependencyGraph, AddNode, AddEdge, GetNode, GetEdges, GetAllNodes,
\* FindCycles) is described in the specification only: nodes keyed by name
\* and listed in insertion order, one edge per (parent, child).

MaxResolveRecords == 2   \* records handed to Resolve
MaxResolveEdges == 2     \* child entries in those records, in total

\* ">=1.1.0", "3.0.0"
ResolveVersions ==
    {<<">", "=", "1", ".", "1", ".", "0">>, <<"3", ".", "0", ".", "0">>}
Strategies == {"StrategyNewest", "StrategyOldest", "StrategyMinimal"}

NewDependencyGraph == [order |-> <<>>, node |-> <<>>, edges |-> <<>>]

GraphAddNode(g, dep) ==
    IF ContainsItem(g.order, dep.Name) THEN g
    ELSE [g EXCEPT !.order = Append(@, dep.Name),
                   !.node = [n \in DOMAIN g.node \cup {dep.Name} |->
                               IF n = dep.Name THEN dep ELSE g.node[n]]]

GraphGetEdges(g, name) == IF name \in DOMAIN g.edges THEN g.edges[name] ELSE <<>>

GraphAddEdge(g, from, to) ==
    IF ContainsItem(GraphGetEdges(g, from), to) THEN g
    ELSE [g EXCEPT !.edges = [n \in DOMAIN g.edges \cup {from} |->
                                IF n = from THEN Append(GraphGetEdges(g, from), to)
                                ELSE g.edges[n]]]

GraphHasNode(g, name) == name \in DOMAIN g.node
GraphGetNode(g, name) == g.node[name]
GraphGetAllNodes(g) == g.order

\* the node sets of the cycles of g
GraphFindCycles(g) ==
    LET names == Range(g.order) \cup DOMAIN g.edges IN
    {S \in SUBSET names :
        \E c \in Perms(S) :
            /\ Len(c) > 0
            /\ \A i \in DOMAIN c :
                  ContainsItem(GraphGetEdges(g, c[i]), c[(i % Len(c)) + 1])}

\* Resolve: the loop that builds the graph
RECURSIVE GraphAddEdges(_, _, _)
GraphAddEdges(g, from, children) ==
    IF children = <<>> THEN g
    ELSE GraphAddEdges(GraphAddEdge(g, from, Head(children).Name),
                       from, Tail(children))
RECURSIVE BuildGraph(_, _)
BuildGraph(g, records) ==
    IF records = <<>> THEN g
    ELSE BuildGraph(GraphAddEdges(GraphAddNode(g, Head(records)),
                                  Head(records).Name,
                                  Head(records).Dependencies),
                    Tail(records))

\* topologicalSort: visit, and its loop over the edges.  st holds sorted,
\* visited, temp and whether an error was returned.
RECURSIVE Visit(_, _, _)
RECURSIVE VisitEdges(_, _, _)
Visit(g, st, name) ==
    IF st.err THEN st
    ELSE IF name \in st.temp THEN [st EXCEPT !.err = TRUE]
    ELSE IF name \in st.visited THEN st
    ELSE With(VisitEdges(g, [st EXCEPT !.temp = @ \cup {name}],
                         GraphGetEdges(g, name)),
              LAMBDA r :
                IF r.err THEN r
                ELSE [r EXCEPT !.temp = @ \ {name},
                               !.visited = @ \cup {name},
                               !.sorted = IF GraphHasNode(g, name)
                                          THEN Append(@, GraphGetNode(g, name))
                                          ELSE @])
VisitEdges(g, st, children) ==
    IF children = <<>> THEN st
    ELSE With(Visit(g, st, Head(children)),
              LAMBDA next : VisitEdges(g, next, Tail(children)))

\* topologicalSort: the loop over graph.GetAllNodes()
RECURSIVE VisitAll(_, _, _)
VisitAll(g, st, nodes) ==
    IF nodes = <<>> \/ st.err THEN st
    ELSE With(Visit(g, st, Head(nodes)),
              LAMBDA next : VisitAll(g, next, Tail(nodes)))

\* topologicalSort
topologicalSort(g) ==
    VisitAll(g, [sorted |-> <<>>, visited |-> {}, temp |-> {}, err |-> FALSE],
             GraphGetAllNodes(g))

\* strings.TrimSpace
RECURSIVE TrimSpace(_)
TrimSpace(str) ==
    IF str # <<>> /\ str[1] = " " THEN TrimSpace(Tail(str))
    ELSE IF str # <<>> /\ str[Len(str)] = " "
    THEN TrimSpace(SubSeq(str, 1, Len(str) - 1))
    ELSE str

\* semver.NewConstraint and Constraints.Check for the constraints of
\* ResolveVersions: a version, which stands for "equal to", or ">=" and a
\* version
NewConstraint(str) ==
    IF HasPrefix(str, <<">", "=">>)
    THEN [ok |-> NewVersion(DropPrefix(str, 2)).ok, op |-> ">=",
          version |-> NewVersion(DropPrefix(str, 2))]
    ELSE [ok |-> NewVersion(str).ok, op |-> "=", version |-> NewVersion(str)]
Check(c, v) ==
    IF c.op = ">=" THEN ~LessThan(v, c.version) ELSE v = c.version

\* parseVersionConstraints
parseVersionConstraints(dep) ==
    IF dep.Version = <<>> THEN [err |-> FALSE, constraints |-> <<>>]
    ELSE LET parts == Split(dep.Version, <<",">>)
             cs == [i \in DOMAIN parts |-> NewConstraint(TrimSpace(parts[i]))]
         IN IF \A i \in DOMAIN cs : cs[i].ok
            THEN [err |-> FALSE, constraints |-> cs]
            ELSE [err |-> TRUE, constraints |-> <<>>]

\* getAvailableVersions: "1.0.0", "1.1.0", "1.2.0", "2.0.0", "2.1.0", "2.2.0",
\* parsed (they come sorted)
getAvailableVersions ==
    <<NewVersion(<<"1", ".", "0", ".", "0">>),
      NewVersion(<<"1", ".", "1", ".", "0">>),
      NewVersion(<<"1", ".", "2", ".", "0">>),
      NewVersion(<<"2", ".", "0", ".", "0">>),
      NewVersion(<<"2", ".", "1", ".", "0">>),
      NewVersion(<<"2", ".", "2", ".", "0">>)>>

\* variant: only the first constraint is looked at
checkConstraints_First(v, constraints) ==
    constraints = <<>> \/ Check(constraints[1], v)

\* checkConstraints
checkConstraints(v, constraints) ==
    \A i \in DOMAIN constraints : Check(constraints[i], v)

\* findMinimalVersion
findMinimalVersion(versions) == Lowest(Range(versions))

\* variant: the first version stands in when none is compatible
selectVersion_Fallback(versions, constraints, strategy) ==
    With(SelectSeq(versions, LAMBDA v : checkConstraints(v, constraints)),
         LAMBDA compatible :
           IF Len(versions) = 0 THEN [err |-> TRUE, version |-> NoVersion]
           ELSE IF Len(compatible) = 0
           THEN [err |-> FALSE, version |-> versions[1]]
           ELSE [err |-> FALSE,
                 version |-> CASE strategy = "StrategyOldest" -> compatible[1]
                               [] strategy = "StrategyMinimal" ->
                                      findMinimalVersion(compatible)
                               [] OTHER -> compatible[Len(compatible)]])

\* selectVersion
selectVersion(versions, constraints, strategy) ==
    With(SelectSeq(versions, LAMBDA v : checkConstraints(v, constraints)),
         LAMBDA compatible :
           IF Len(versions) = 0 \/ Len(compatible) = 0
           THEN [err |-> TRUE, version |-> NoVersion]
           ELSE [err |-> FALSE,
                 version |-> CASE strategy = "StrategyOldest" -> compatible[1]
                               [] strategy = "StrategyMinimal" ->
                                      findMinimalVersion(compatible)
                               [] OTHER -> compatible[Len(compatible)]])

\* resolveDependency
resolveDependency(dep, resolvedMap, strategy) ==
    IF dep.Name \in DOMAIN resolvedMap
    THEN [err |-> FALSE, dep |-> resolvedMap[dep.Name]]
    ELSE With(parseVersionConstraints(dep),
              LAMBDA pc :
                IF pc.err THEN [err |-> TRUE, dep |-> dep]
                ELSE With(selectVersion(getAvailableVersions, pc.constraints,
                                        strategy),
                          LAMBDA sel :
                            IF sel.err THEN [err |-> TRUE, dep |-> dep]
                            ELSE [err |-> FALSE,
                                  dep |-> [dep EXCEPT !.Version =
                                             VersionString(sel.version)]]))

\* Resolve: the loop over the sorted records.  res holds the resolved map
\* and the three lists of the ResolveResult.
RECURSIVE ResolveAll(_, _, _)
ResolveAll(res, sorted, opts) ==
    IF sorted = <<>> THEN res
    ELSE With(resolveDependency(Head(sorted), res.resolvedMap, opts.Strategy),
              LAMBDA r :
                With(IF r.err
                     THEN IF opts.Strict
                          THEN [res EXCEPT !.Errors = Append(@, Head(sorted).Name)]
                          ELSE [res EXCEPT
                                  !.Unresolved = Append(@, Head(sorted).Name)]
                     ELSE [res EXCEPT
                             !.resolvedMap =
                                 [n \in DOMAIN @ \cup {r.dep.Name} |->
                                    IF n = r.dep.Name THEN r.dep ELSE @[n]],
                             !.Dependencies = Append(@, r.dep)],
                     LAMBDA next : ResolveAll(next, Tail(sorted), opts)))

\* Resolver.Resolve
Resolve(records, opts) ==
    With(BuildGraph(NewDependencyGraph, records),
         LAMBDA g :
           IF GraphFindCycles(g) # {} /\ opts.Strict
           THEN [done |-> TRUE, opts |-> opts, err |-> TRUE]
           ELSE With(topologicalSort(g),
                     LAMBDA ts :
                       IF ts.err
                       THEN [done |-> TRUE, opts |-> opts, err |-> TRUE]
                       ELSE With(ResolveAll([resolvedMap |-> <<>>,
                                             Dependencies |-> <<>>,
                                             Unresolved |-> <<>>,
                                             Errors |-> <<>>],
                                            ts.sorted, opts),
                                 LAMBDA res :
                                   [done |-> TRUE, opts |-> opts, err |-> FALSE,
                                    Dependencies |-> res.Dependencies,
                                    Unresolved |-> res.Unresolved,
                                    Errors |-> res.Errors])))

InitResolve ==
    /\ InitAnalyzer
    /\ deps \in RecordLists(Names, ResolveVersions, PlainVersions,
                             MaxResolveRecords, MaxResolveEdges)

\* resolver.Resolve(deps, opts)
CallResolve ==
    /\ ~resolved.done
    /\ \E strategy \in Strategies, strict \in BOOLEAN :
          resolved' = Resolve(deps, [Strategy |-> strategy, Strict |-> strict])
    /\ UNCHANGED <<envVars, cfgVars, cacheVars, scanVars, histVars>>
    /\ UNCHANGED <<exists, vres, stopReq, tree, examined, version, normalized,
                   deps, graph, analysis,
                   parseVars>>

NextResolve == CallResolve

SpecResolve == InitResolve /\ [][NextResolve]_vars

\* selection harness: few names and edges, constraints of one and of two
\* fragments
MaxSelectRecords == 2    \* records handed to Resolve (selection harness)
MaxSelectEdges == 1      \* child entries in those records, in total

\* ">=1.1.0", ">=1.1.0, 2.0.0", "3.0.0"
SelectVersions ==
    {<<">", "=", "1", ".", "1", ".", "0">>,
     <<">", "=", "1", ".", "1", ".", "0", ",", " ", "2", ".", "0", ".", "0">>,
     <<"3", ".", "0", ".", "0">>}

InitSelect ==
    /\ InitAnalyzer
    /\ deps \in RecordLists(ConflictNames, SelectVersions, PlainVersions,
                             MaxSelectRecords, MaxSelectEdges)

SpecSelect == InitSelect /\ [][NextResolve]_vars

\* ---------------------------------------------------------------- dispatch
\* RegisterExtractor / GetExtractor, Scanner.detectFileType and the
\* IsApplicable / GetPriority methods of the pattern extractors.

\* "Makefile", "a.pc", "a.cmake", "a.txt", "build.ninja", "BUCK",
\* "BUILD.buck"
FileNames ==
    {<<"M", "a", "k", "e", "f", "i", "l", "e">>,
     <<"a", ".", "p", "c">>,
     <<"a", ".", "c", "m", "a", "k", "e">>,
     <<"a", ".", "t", "x", "t">>,
     <<"b", "u", "i", "l", "d", ".", "n", "i", "n", "j", "a">>,
     <<"B", "U", "C", "K">>,
     <<"B", "U", "I", "L", "D", ".", "b", "u", "c", "k">>}

\* the types for which an init() calls RegisterExtractor
RegisteredTypes == {"make", "meson", "conan", "control", "pkgconfig"}

\* strings.HasSuffix
HasSuffix(str, suffix) ==
    /\ Len(str) >= Len(suffix)
    /\ SubSeq(str, Len(str) - Len(suffix) + 1, Len(str)) = suffix

\* filepath.Ext: the suffix that begins at the last dot, "" without a dot
Ext(filename) ==
    IF Occurrences(filename, <<".">>) = {} THEN <<>>
    ELSE SubSeq(filename,
                CHOOSE i \in Occurrences(filename, <<".">>) :
                    \A j \in Occurrences(filename, <<".">>) : j <= i,
                Len(filename))

\* detectFileType: the extractor of the first case that applies, "none"
\* for nil
detectFileType(filename) ==
    CASE filename = <<"C", "M", "a", "k", "e", "L", "i", "s", "t", "s", ".", "t", "x", "t">>
           \/ Ext(filename) = <<".", "c", "m", "a", "k", "e">> -> "cmake"
      [] filename = <<"M", "a", "k", "e", "f", "i", "l", "e">> \/ filename = <<"m", "a", "k", "e", "f", "i", "l", "e">> -> "make"
      [] filename = <<"c", "o", "n", "a", "n", "f", "i", "l", "e", ".", "t", "x", "t">>
           \/ filename = <<"c", "o", "n", "a", "n", "f", "i", "l", "e", ".", "p", "y">> -> "conan"
      [] filename = <<"v", "c", "p", "k", "g", ".", "j", "s", "o", "n">> -> "vcpkg"
      [] filename = <<".", "g", "i", "t", "m", "o", "d", "u", "l", "e", "s">> -> "submodule"
      [] filename = <<"m", "e", "s", "o", "n", ".", "b", "u", "i", "l", "d">> -> "meson"
      [] Ext(filename) = <<".", "p", "c">> -> "pkgconfig"
      [] filename = <<"c", "o", "n", "f", "i", "g", "u", "r", "e">>
           \/ filename = <<"c", "o", "n", "f", "i", "g", "u", "r", "e", ".", "a", "c">> -> "autoconf"
      [] Ext(filename) = <<".", "d", "s", "c">> -> "control"
      [] OTHER -> "none"

\* IsApplicable: filePattern.MatchString(fileName), a match anywhere in the
\* name, for the patterns of NewNinjaExtractor, NewBuckExtractor,
\* NewBazelExtractor and NewSconsExtractor
IsApplicable(extractor, fileName) ==
    CASE extractor = "Ninja" ->
           \/ Contains(fileName, <<"b", "u", "i", "l", "d", ".", "n", "i", "n", "j", "a">>)
           \/ HasSuffix(fileName, <<".", "n", "i", "n", "j", "a">>)
      [] extractor = "Buck" ->
           \/ Contains(fileName, <<"B", "U", "C", "K">>)
           \/ Contains(fileName, <<"T", "A", "R", "G", "E", "T", "S">>)
           \/ \E i \in Occurrences(fileName, <<".", "b", "u", "c", "k">>) : i > 1
      [] extractor = "Bazel" ->
           \/ Contains(fileName, <<"B", "U", "I", "L", "D">>)
           \/ Contains(fileName, <<"W", "O", "R", "K", "S", "P", "A", "C", "E">>)
      [] extractor = "SCons" ->
           \/ Contains(fileName, <<"S", "C", "o", "n", "s", "t", "r", "u", "c", "t">>)
           \/ Contains(fileName, <<"S", "C", "o", "n", "s", "c", "r", "i", "p", "t">>)
           \/ HasSuffix(fileName, <<".", "s", "c", "o", "n", "s">>)

\* GetPriority
GetPriority(extractor) == 100

PatternExtractors == {"Ninja", "Buck", "Bazel", "SCons"}

\* RegisterExtractor(typ, factory), called from the init() of typ's file
RegisterExtractor(typ) ==
    /\ typ \notin registry
    /\ registry' = registry \cup {typ}
    /\ UNCHANGED <<envVars, cfgVars, cacheVars, scanVars, histVars, auxVars>>
    /\ UNCHANGED <<chosen, text, extracted, analysed>>

\* GetExtractor
GetExtractor(typ) == IF typ \in registry THEN typ ELSE "none"

\* the walk callback: ext := s.detectFileType(path, info)
DetectFileType(filename) ==
    /\ ~chosen.done
    /\ chosen' = [done |-> TRUE, filename |-> filename,
                  extractor |-> detectFileType(filename)]
    /\ UNCHANGED <<envVars, cfgVars, cacheVars, scanVars, histVars, auxVars>>
    /\ UNCHANGED <<registry, text, extracted, analysed>>

InitDispatch == ScanIdle /\ PureIdle

NextDispatch ==
    \/ \E typ \in RegisteredTypes : RegisterExtractor(typ)
    \/ \E filename \in FileNames : DetectFileType(filename)

SpecDispatch == InitDispatch /\ [][NextDispatch]_vars

\* --------------------------------------------------------------- extractors
\* NinjaExtractor.Extract and expandVariables.  A file is the sequence of
\* its lines, a line the sequence of its characters.

MaxLines == 3            \* lines of a file handed to an extractor
MaxRuns == 2             \* Extract calls on the same file

\* "a = x", "ab = y", "build $a.o: cc $ab.c", "build o: cc ${a} | $q",
\* "include $a"
NinjaLines ==
    {<<"a", " ", "=", " ", "x">>,
     <<"a", "b", " ", "=", " ", "y">>,
     <<"b", "u", "i", "l", "d", " ", "$", "a", ".", "o", ":", " ", "c", "c", " ", "$", "a", "b", ".", "c">>,
     <<"b", "u", "i", "l", "d", " ", "o", ":", " ", "c", "c", " ", "$", "{", "a", "}", " ", "|", " ", "$", "q">>,
     <<"i", "n", "c", "l", "u", "d", "e", " ", "$", "a">>}

RECURSIVE LinesOf(_, _)
LinesOf(lines, n) ==
    IF n = 0 THEN {<<>>}
    ELSE {<<>>} \cup {<<l>> \o rest : l \in lines, rest \in LinesOf(lines, n - 1)}

\* the part of str before the first character that is in stops
RECURSIVE Before(_, _)
Before(str, stops) ==
    IF str = <<>> \/ Head(str) \in stops THEN <<>>
    ELSE <<Head(str)>> \o Before(Tail(str), stops)

\* strings.Fields: the pieces between runs of white space
RECURSIVE Fields(_)
Fields(str) ==
    IF str = <<>> THEN <<>>
    ELSE IF Head(str) = " " THEN Fields(Tail(str))
    ELSE <<Before(str, {" "})>> \o Fields(DropPrefix(str, Len(Before(str, {" "}))))

\* strings.ReplaceAll (old not empty)
RECURSIVE ReplaceAll(_, _, _)
ReplaceAll(str, old, new) ==
    IF Len(str) < Len(old) THEN str
    ELSE IF HasPrefix(str, old)
    THEN new \o ReplaceAll(DropPrefix(str, Len(old)), old, new)
    ELSE <<Head(str)>> \o ReplaceAll(Tail(str), old, new)

\* expandVariables, the map ranged over in the order given
RECURSIVE expandVariables(_, _, _)
expandVariables(value, variables, order) ==
    IF order = <<>> THEN value
    ELSE expandVariables(
           ReplaceAll(ReplaceAll(value, <<"$">> \o Head(order),
                                 variables[Head(order)]),
                      <<"$", "{">> \o Head(order) \o <<"}">>,
                      variables[Head(order)]),
           variables, Tail(order))

\* the results expandVariables can give for each of the tokens
RECURSIVE ExpandEach(_, _)
ExpandEach(tokens, variables) ==
    IF tokens = <<>> THEN {<<>>}
    ELSE {<<first>> \o rest :
            first \in {expandVariables(Head(tokens), variables, order) :
                          order \in Perms(DOMAIN variables)},
            rest \in ExpandEach(Tail(tokens), variables)}

\* variableRegex.FindStringSubmatch on a trimmed line: matches[1] is what
\* precedes the first "=", matches[2] what follows it up to a "#"
MatchVariable(line) ==
    IF /\ Index(line, <<"=">>) > 1
       /\ Len(line) > Index(line, <<"=">>)
       /\ line[Index(line, <<"=">>) + 1] # "#"
    THEN [ok |-> TRUE,
          name |-> TrimSpace(SubSeq(line, 1, Index(line, <<"=">>) - 1)),
          value |-> TrimSpace(Before(DropPrefix(line, Index(line, <<"=">>)),
                                     {"#"}))]
    ELSE [ok |-> FALSE]

\* includeRegex and subninjaDirRegex: the word, white space, and what
\* follows up to a "#"
MatchDirective(line, word) ==
    IF /\ HasPrefix(line, word \o <<" ">>)
       /\ Before(DropPrefix(line, Len(word) + 1), {"#"}) # <<>>
    THEN [ok |-> TRUE,
          path |-> TrimSpace(Before(DropPrefix(line, Len(word) + 1), {"#"}))]
    ELSE [ok |-> FALSE]

\* buildRuleRegex.FindStringSubmatch on a trimmed line: outputs up to the
\* first ":", the rule, the inputs up to a "|" or "#", and what follows
\* "| " up to a "#"
MatchBuild(line) ==
    IF ~(HasPrefix(line, <<"b", "u", "i", "l", "d", " ">>)
         /\ Index(DropPrefix(line, 5), <<":">>) > 2)
    THEN [ok |-> FALSE]
    ELSE With([outputs |-> Before(DropPrefix(line, 5), {":"}),
               tail |-> DropPrefix(line, 5 + Index(DropPrefix(line, 5), <<":">>))],
      LAMBDA m :
        IF ~(m.tail # <<>> /\ Head(m.tail) = " " /\ Fields(m.tail) # <<>>)
        THEN [ok |-> FALSE]
        ELSE With([rule |-> Fields(m.tail)[1],
                   tail |-> DropPrefix(m.tail,
                               Index(m.tail, Fields(m.tail)[1])
                                 + Len(Fields(m.tail)[1]) - 1)],
          LAMBDA r :
            IF ~(r.tail # <<>> /\ Head(r.tail) = " "
                 /\ Before(r.tail, {"|", "#"}) # <<>>)
            THEN [ok |-> FALSE]
            ELSE With(DropPrefix(r.tail, Len(Before(r.tail, {"|", "#"}))),
              LAMBDA rest :
                IF rest # <<>> /\ Head(rest) = "|"
                   /\ ~(Len(rest) > 2 /\ rest[2] = " " /\ rest[3] # "#")
                THEN [ok |-> FALSE]
                ELSE [ok |-> TRUE,
                      outputs |-> Fields(m.outputs),
                      rule |-> r.rule,
                      inputs |-> Fields(Before(r.tail, {"|", "#"})),
                      implicit |-> IF rest # <<>> /\ Head(rest) = "|"
                                   THEN Fields(Before(Tail(rest), {"#"}))
                                   ELSE <<>>])))

\* Extract: the records appended for one directive or for the inputs of
\* one build statement (FilePath is left out)
NinjaRecords(names, type, lineNum, parent, rule) ==
    [i \in DOMAIN names |->
        [Name |-> names[i], Type |-> type, Line |-> lineNum,
         Parent |-> parent, Rule |-> rule]]

\* Extract: the dependency lists the loop over the lines can end with,
\* from line lineNum on
RECURSIVE NinjaScan(_, _, _, _)
NinjaScan(lines, lineNum, variables, dependencies) ==
    IF lineNum > Len(lines) THEN {dependencies}
    ELSE With(TrimSpace(lines[lineNum]),
      LAMBDA line :
        IF line = <<>> \/ HasPrefix(line, <<"#">>)
        THEN NinjaScan(lines, lineNum + 1, variables, dependencies)
        ELSE IF MatchVariable(line).ok
        THEN NinjaScan(lines, lineNum + 1,
                       [n \in DOMAIN variables \cup {MatchVariable(line).name} |->
                           IF n = MatchVariable(line).name
                           THEN MatchVariable(line).value ELSE variables[n]],
                       dependencies)
        ELSE IF MatchDirective(line, <<"i", "n", "c", "l", "u", "d", "e">>).ok
        THEN UNION {NinjaScan(lines, lineNum + 1, variables,
                              dependencies \o NinjaRecords(names, "ninja_include",
                                                           lineNum, <<>>, <<>>)) :
                      names \in ExpandEach(
                        <<MatchDirective(line,
                            <<"i", "n", "c", "l", "u", "d", "e">>).path>>,
                        variables)}
        ELSE IF MatchDirective(line, <<"s", "u", "b", "n", "i", "n", "j", "a">>).ok
        THEN UNION {NinjaScan(lines, lineNum + 1, variables,
                              dependencies \o NinjaRecords(names, "ninja_subninja",
                                                           lineNum, <<>>, <<>>)) :
                      names \in ExpandEach(
                        <<MatchDirective(line,
                            <<"s", "u", "b", "n", "i", "n", "j", "a">>).path>>,
                        variables)}
        ELSE IF MatchBuild(line).ok
        THEN With(MatchBuild(line),
          LAMBDA b :
            UNION {NinjaScan(lines, lineNum + 1, variables,
                             dependencies
                               \o NinjaRecords(inputs, "ninja_input", lineNum,
                                               b.outputs[1], b.rule)
                               \o NinjaRecords(implicit, "ninja_implicit", lineNum,
                                               b.outputs[1], b.rule)) :
                     inputs \in ExpandEach(b.inputs, variables),
                     implicit \in ExpandEach(b.implicit, variables)})
        ELSE NinjaScan(lines, lineNum + 1, variables, dependencies))

\* NinjaExtractor.Extract on the file: the lists it can return
NinjaExtract(lines) == NinjaScan(lines, 1, <<>>, <<>>)

\* VcpkgExtractor.Extract.  The manifest is what vcpkg.json declares, the
\* features in the order of the file; json.Unmarshal puts them in a map.
NoManifest == [Dependencies |-> <<>>, Features |-> <<>>, Overrides |-> <<>>]

VcpkgFeatures ==
    {[Name |-> "ssl", Dependencies |-> <<"openssl">>],
     [Name |-> "img", Dependencies |-> <<"png", "jpeg">>]}

VcpkgManifests ==
    {[Dependencies |-> d, Features |-> f, Overrides |-> o] :
        d \in {<<>>, <<"zlib">>},
        f \in {<<>>} \cup {<<x>> : x \in VcpkgFeatures}
                \cup {p \in VcpkgFeatures \X VcpkgFeatures : p[1] # p[2]},
        o \in {<<>>, <<"fmt">>}}

\* manifest.Features after json.Unmarshal: the last object of each name
FeatureMap(manifest) ==
    [name \in {manifest.Features[i].Name : i \in DOMAIN manifest.Features} |->
        manifest.Features[
            CHOOSE i \in DOMAIN manifest.Features :
                /\ manifest.Features[i].Name = name
                /\ \A j \in DOMAIN manifest.Features :
                     manifest.Features[j].Name = name => j <= i]]

\* convertVcpkgDependency and convertVcpkgOverride, with the fields Extract
\* sets for a feature
VcpkgRecords(names, type, feature) ==
    [i \in DOMAIN names |->
        [Name |-> names[i], Type |-> type, Optional |-> type = "feature",
         Description |-> feature]]

\* Extract: the records of the features, the map ranged over in order
RECURSIVE FeatureRecords(_, _)
FeatureRecords(features, order) ==
    IF order = <<>> THEN <<>>
    ELSE VcpkgRecords(features[Head(order)].Dependencies, "feature", Head(order))
           \o FeatureRecords(features, Tail(order))

\* VcpkgExtractor.Extract on the manifest: the lists it can return
VcpkgExtract(manifest) ==
    {VcpkgRecords(manifest.Dependencies, "library", "")
       \o FeatureRecords(FeatureMap(manifest), order)
       \o VcpkgRecords(manifest.Overrides, "override", "") :
       order \in Perms(DOMAIN FeatureMap(manifest))}

\* BuckExtractor.Extract and extractDepsFromLine.

\* `cpp_library(name = "l",`, `cpp_library(`, `name = "l",`,
\* `deps = [":a"],`, `deps = [`, `":a", # "c"`, `"//b",`, `],`
BuckLines ==
    {<<"c", "p", "p", "_", "l", "i", "b", "r", "a", "r", "y", "(", "n", "a", "m", "e", " ", "=", " ", "\"", "l", "\"", ",">>,
     <<"c", "p", "p", "_", "l", "i", "b", "r", "a", "r", "y", "(">>,
     <<"n", "a", "m", "e", " ", "=", " ", "\"", "l", "\"", ",">>,
     <<"d", "e", "p", "s", " ", "=", " ", "[", "\"", ":", "a", "\"", "]", ",">>,
     <<"d", "e", "p", "s", " ", "=", " ", "[">>,
     <<"\"", ":", "a", "\"", ",", " ", "#", " ", "\"", "c", "\"">>,
     <<"\"", "/", "/", "b", "\"", ",">>,
     <<"]", ",">>}

\* the string without its leading white space
RECURSIVE TrimLeft(_)
TrimLeft(str) ==
    IF str # <<>> /\ Head(str) = " " THEN TrimLeft(Tail(str)) ELSE str

\* depRegex.FindAllStringSubmatch: the texts between a quote and the next
\* one, one character at least, from left to right
RECURSIVE QuotedItems(_)
QuotedItems(str) ==
    IF Index(str, <<"\"">>) = 0 THEN <<>>
    ELSE With(DropPrefix(str, Index(str, <<"\"">>)),
      LAMBDA opened :
        IF Index(opened, <<"\"">>) = 0 THEN <<>>
        ELSE IF Index(opened, <<"\"">>) = 1 THEN QuotedItems(opened)
        ELSE <<Before(opened, {"\""})>>
               \o QuotedItems(DropPrefix(opened, Index(opened, <<"\"">>))))

\* extractDepsFromLine
extractDepsFromLine(line) ==
    With(IF Index(line, <<"/", "/">>) # 0
         THEN SubSeq(line, 1, Index(line, <<"/", "/">>) - 1) ELSE line,
      LAMBDA kept :
        SelectSeq([i \in DOMAIN QuotedItems(kept) |-> TrimSpace(QuotedItems(kept)[i])],
                  LAMBDA dep : dep # <<>>))

\* the text that follows the words, each after optional white space, or
\* NoMatch when the string does not start with them
NoMatch == <<"no match">>
RECURSIVE AfterWords(_, _)
AfterWords(str, words) ==
    IF words = <<>> THEN str
    ELSE IF HasPrefix(TrimLeft(str), Head(words))
    THEN AfterWords(DropPrefix(TrimLeft(str), Len(Head(words))), Tail(words))
    ELSE NoMatch

\* cppLibraryRegex and the like, at the first place the rule's word
\* occurs: rule(, name, =, and the quoted name
MatchTarget(line, rule) ==
    IF Index(line, rule \o <<"(">>) = 0 THEN [ok |-> FALSE]
    ELSE With(AfterWords(DropPrefix(line, Index(line, rule \o <<"(">>) + Len(rule)),
                         <<<<"n", "a", "m", "e">>, <<"=">>, <<"\"">>>>),
      LAMBDA named :
        IF named = NoMatch \/ Index(named, <<"\"">>) < 2 THEN [ok |-> FALSE]
        ELSE [ok |-> TRUE, name |-> Before(named, {"\""})])

BuckRules ==
    <<<<"c", "p", "p", "_", "l", "i", "b", "r", "a", "r", "y">>,
      <<"c", "p", "p", "_", "b", "i", "n", "a", "r", "y">>,
      <<"p", "r", "e", "b", "u", "i", "l", "t", "_", "j", "a", "r">>,
      <<"r", "e", "m", "o", "t", "e", "_", "f", "i", "l", "e">>>>

\* the first of the four rule patterns that matches the line
FirstTarget(line) ==
    IF \E i \in DOMAIN BuckRules : MatchTarget(line, BuckRules[i]).ok
    THEN MatchTarget(line, BuckRules[
             CHOOSE i \in DOMAIN BuckRules :
                 /\ MatchTarget(line, BuckRules[i]).ok
                 /\ \A j \in 1..(i - 1) : ~MatchTarget(line, BuckRules[j]).ok])
    ELSE [ok |-> FALSE]

\* depsRegex.MatchString, at the first place "deps" occurs: deps, =, [
\* and a closing bracket later in the line
MatchDeps(line) ==
    /\ Index(line, <<"d", "e", "p", "s">>) # 0
    /\ With(AfterWords(DropPrefix(line, Index(line, <<"d", "e", "p", "s">>) + 3),
                       <<<<"=">>, <<"[">>>>),
         LAMBDA listed : listed # NoMatch /\ Index(listed, <<"]">>) # 0)

BuckRecords(names, lineNum, parent) ==
    [i \in DOMAIN names |->
        [Name |-> names[i], Type |-> "buck_dependency", Line |-> lineNum,
         Parent |-> parent]]

\* Extract: the loop over the lines from line lineNum on
RECURSIVE BuckScan(_, _, _, _, _)
BuckScan(lines, lineNum, currentTarget, inDepsBlock, dependencies) ==
    IF lineNum > Len(lines) THEN dependencies
    ELSE With(TrimSpace(lines[lineNum]),
      LAMBDA line :
        With(IF FirstTarget(line).ok
             THEN [currentTarget |-> FirstTarget(line).name, inDepsBlock |-> FALSE]
             ELSE [currentTarget |-> currentTarget, inDepsBlock |-> inDepsBlock],
          LAMBDA e :
            IF MatchDeps(line)
            THEN BuckScan(lines, lineNum + 1, e.currentTarget, TRUE,
                          dependencies \o BuckRecords(extractDepsFromLine(line),
                                                      lineNum, e.currentTarget))
            ELSE BuckScan(lines, lineNum + 1, e.currentTarget,
                          e.inDepsBlock /\ line # <<"]">>,
                          IF e.inDepsBlock /\ line # <<"]">> /\ line # <<>>
                          THEN dependencies \o BuckRecords(extractDepsFromLine(line),
                                                           lineNum, e.currentTarget)
                          ELSE dependencies)))

\* BuckExtractor.Extract on the file
BuckExtract(lines) == BuckScan(lines, 1, <<>>, FALSE, <<>>)

\* ControlExtractor.Extract and its process...Line methods.

\* "Depends: a,", " b", "Recommends: c,", "Description: d"
ControlLines ==
    {<<"D", "e", "p", "e", "n", "d", "s", ":", " ", "a", ",">>,
     <<" ", "b">>,
     <<"R", "e", "c", "o", "m", "m", "e", "n", "d", "s", ":", " ", "c", ",">>,
     <<"D", "e", "s", "c", "r", "i", "p", "t", "i", "o", "n", ":", " ", "d">>}

\* the fields Extract looks for, in the order in which it tries them, and
\* the Type of the records of each
ControlFields ==
    <<[prefix |-> <<"B", "u", "i", "l", "d", "-", "D", "e", "p", "e", "n", "d", "s", "-", "I", "n", "d", "e", "p", ":">>,
       type |-> "dependency"],
      [prefix |-> <<"B", "u", "i", "l", "d", "-", "D", "e", "p", "e", "n", "d", "s", ":">>,
       type |-> "dependency"],
      [prefix |-> <<"D", "e", "p", "e", "n", "d", "s", "-", "I", "n", "d", "e", "p", ":">>,
       type |-> "dependency"],
      [prefix |-> <<"D", "e", "p", "e", "n", "d", "s", ":">>,
       type |-> "dependency"],
      [prefix |-> <<"P", "r", "e", "-", "D", "e", "p", "e", "n", "d", "s", ":">>,
       type |-> "dependency"],
      [prefix |-> <<"R", "e", "c", "o", "m", "m", "e", "n", "d", "s", ":">>,
       type |-> "recommends"],
      [prefix |-> <<"S", "u", "g", "g", "e", "s", "t", "s", ":">>,
       type |-> "suggests"],
      [prefix |-> <<"E", "n", "h", "a", "n", "c", "e", "s", ":">>,
       type |-> "enhances"],
      [prefix |-> <<"B", "r", "e", "a", "k", "s", ":">>,
       type |-> "breaks"],
      [prefix |-> <<"C", "o", "n", "f", "l", "i", "c", "t", "s", ":">>,
       type |-> "conflicts"],
      [prefix |-> <<"P", "r", "o", "v", "i", "d", "e", "s", ":">>,
       type |-> "provides"],
      [prefix |-> <<"R", "e", "p", "l", "a", "c", "e", "s", ":">>,
       type |-> "replaces"]>>

\* the field pattern that matches the line: the first in the order of the
\* tests, with at least one character after the colon; 0 when none does
MatchField(line) ==
    IF \E f \in DOMAIN ControlFields :
           HasPrefix(line, ControlFields[f].prefix)
             /\ Len(line) > Len(ControlFields[f].prefix)
    THEN CHOOSE f \in DOMAIN ControlFields :
             /\ HasPrefix(line, ControlFields[f].prefix)
             /\ Len(line) > Len(ControlFields[f].prefix)
             /\ \A g \in 1..(f - 1) : ~HasPrefix(line, ControlFields[g].prefix)
    ELSE 0

\* processDependencyLine, processOptionalDependencyLine and the others:
\* one record per item between commas, named by the item's first word
\* (the version constraint of an item is left out)
processLine(line, type) ==
    With(SelectSeq([i \in DOMAIN Split(line, <<",">>) |->
                       TrimSpace(Split(line, <<",">>)[i])],
                   LAMBDA item : item # <<>>),
      LAMBDA items :
        [i \in DOMAIN items |-> [Name |-> Fields(items[i])[1], Type |-> type]])

\* Extract: the loop over the lines from line k on, and the flush of the
\* last continuation
RECURSIVE ControlScan(_, _, _, _)
ControlScan(lines, k, continuationLine, dependencies) ==
    IF k > Len(lines)
    THEN IF continuationLine # <<>>
         THEN dependencies \o processLine(continuationLine, "dependency")
         ELSE dependencies
    ELSE IF HasPrefix(lines[k], <<" ">>)
    THEN ControlScan(lines, k + 1,
                     continuationLine \o <<" ">> \o TrimSpace(lines[k]),
                     dependencies)
    ELSE With(IF continuationLine # <<>>
              THEN dependencies \o processLine(continuationLine, "dependency")
              ELSE dependencies,
      LAMBDA flushed :
        IF MatchField(lines[k]) # 0
        THEN ControlScan(lines, k + 1, <<>>,
                         flushed \o processLine(
                             DropPrefix(lines[k],
                                 Len(ControlFields[MatchField(lines[k])].prefix)),
                             ControlFields[MatchField(lines[k])].type))
        ELSE ControlScan(lines, k + 1, <<>>, flushed))

\* ControlExtractor.Extract on the file
ControlExtract(lines) == ControlScan(lines, 1, <<>>, <<>>)

\* one call of ControlExtractor.Extract on the file
ControlRun ==
    /\ text.format = "control"
    /\ Len(extracted) < MaxRuns
    /\ extracted' = Append(extracted, ControlExtract(text.lines))
    /\ UNCHANGED <<envVars, cfgVars, cacheVars, scanVars, histVars, auxVars>>
    /\ UNCHANGED <<registry, chosen, text, analysed>>

\* one call of NinjaExtractor.Extract on the file
NinjaRun ==
    /\ text.format = "ninja"
    /\ Len(extracted) < MaxRuns
    /\ \E dependencies \in NinjaExtract(text.lines) :
         extracted' = Append(extracted, dependencies)
    /\ UNCHANGED <<envVars, cfgVars, cacheVars, scanVars, histVars, auxVars>>
    /\ UNCHANGED <<registry, chosen, text, analysed>>

\* one call of VcpkgExtractor.Extract on the file
VcpkgRun ==
    /\ text.format = "vcpkg"
    /\ Len(extracted) < MaxRuns
    /\ \E dependencies \in VcpkgExtract(text.manifest) :
         extracted' = Append(extracted, dependencies)
    /\ UNCHANGED <<envVars, cfgVars, cacheVars, scanVars, histVars, auxVars>>
    /\ UNCHANGED <<registry, chosen, text, analysed>>

\* one call of BuckExtractor.Extract on the file
BuckRun ==
    /\ text.format = "buck"
    /\ Len(extracted) < MaxRuns
    /\ extracted' = Append(extracted, BuckExtract(text.lines))
    /\ UNCHANGED <<envVars, cfgVars, cacheVars, scanVars, histVars, auxVars>>
    /\ UNCHANGED <<registry, chosen, text, analysed>>

ExtractIdle ==
    /\ tree = NoTree
    /\ examined = NotRun
    /\ version = <<>>
    /\ normalized = NotRun
    /\ deps = <<>>
    /\ graph = NoGraph
    /\ analysis = NotRun
    /\ resolved = NotRun
    /\ registry = {}
    /\ chosen = NotRun
    /\ extracted = <<>>
    /\ analysed = <<>>

InitExtract ==
    /\ ScanIdle
    /\ ExtractIdle
    /\ text \in {[format |-> "ninja", lines |-> l, manifest |-> NoManifest] :
                    l \in LinesOf(NinjaLines, MaxLines)}
               \cup {[format |-> "vcpkg", lines |-> <<>>, manifest |-> m] :
                       m \in VcpkgManifests}
               \cup {[format |-> "buck", lines |-> l, manifest |-> NoManifest] :
                       l \in LinesOf(BuckLines, MaxLines)}
               \cup {[format |-> "control", lines |-> l, manifest |-> NoManifest] :
                       l \in LinesOf(ControlLines, MaxLines)}

NextExtract == NinjaRun \/ VcpkgRun \/ BuckRun \/ ControlRun

SpecExtract == InitExtract /\ [][NextExtract]_vars

\* ================================================================ claims

BagOfSeq(q) == [x \in Range(q) |-> Cardinality({i \in DOMAIN q : q[i] = x})]

RECURSIVE Concat(_, _)
Concat(fn, n) == IF n = 0 THEN <<>> ELSE Concat(fn, n - 1) \o fn[n]

Extracting == {f \in Files : wpc[f] = "extract"}

\* C1: at every moment of a scan the number of extractor invocations that
\* are executing is at most max_workers, and at most 10 when max_workers
\* was configured as 0 or less.
C1_BoundedParallelism ==
    /\ maxWorkersCfg > 0 => Cardinality(Extracting) <= maxWorkersCfg
    /\ maxWorkersCfg <= 0 => Cardinality(Extracting) <= 10

\* one slot configured, one extractor running, the walker waiting for the slot
C1_Witness ==
    /\ maxWorkersCfg = 1
    /\ scanPc = "dispatch"
    /\ Cardinality(Extracting) = 1

\* a thread is between the read and the write of an append to the result
InAppend(t) ==
    IF t = Walker THEN scanPc = "hitadd" ELSE wpc[t] \in {"add", "adderr_w"}

\* C2: every append to the result's dependencies and to its errors is made
\* by a thread that holds the scanner's mutex.
C2_AppendsUnderMutex == \A t \in Threads : InAppend(t) => mu = t

\* C3: once Scan has returned, with nil or with an error, no task it
\* dispatched is still running.
C3_ReturnsAfterAllTasks == scanPc \in {"done", "failed"} => Quiescent

\* C4: when a scan completes, the records of the result are, as a multiset,
\* the union of the record lists produced for the matched files, by the
\* extractor or by the cache.
C4_Aggregation ==
    scanPc = "done" =>
        /\ BagOfSeq(result.Dependencies) = BagOfSeq(Concat(out, NumFiles))
        /\ result.TotalDeps = Len(Concat(out, NumFiles))

\* a completed scan that served one file from the cache and extracted another
C4_Witness ==
    /\ scanPc = "done"
    /\ \E f, g \in Files : hit[f] /\ wpc[g] = "done" /\ kind[g] = "ok"
    /\ Len(result.Dependencies) = 4

\* C5: when a scan completes, the errors list has an entry for every file
\* whose extractor returned an error.
C5_EveryFailureListed ==
    scanPc = "done" =>
        \A f \in Files :
            (kind[f] = "fail" /\ wpc[f] = "done") => f \in Range(result.Errors)

\* C6: Scan returns an error exactly when the traversal reported an I/O
\* error; failed extractors and failed cache writes do not make it fail.
C6_FailsIffWalkError ==
    scanPc \in {"done", "failed"} =>
        (scanPc = "failed" <=> \E f \in Files : kind[f] = "ioerr")

\* a scan that returned nil although an extractor and a cache write failed
C6_Witness ==
    /\ scanPc = "done"
    /\ \E f, g \in Files :
          /\ kind[f] = "fail" /\ wpc[f] = "done"
          /\ kind[g] = "ok" /\ wpc[g] = "done" /\ sres[g]

\* what the claim expects Get(p) to return: the records of the last Set on
\* p, provided the file is readable, has the content it had at that Set, and
\* the Set is no older than the window
ExpectedGet(p) ==
    IF /\ setLog[p].set
       /\ readable[p]
       /\ content[p] = setLog[p].content
       /\ now - setLog[p].time <= StaleWindow
    THEN [ok |-> TRUE, deps |-> setLog[p].deps]
    ELSE Miss

\* C7: Get(path) returns the stored records exactly when an entry is stored
\* whose hash is that of the file's current content and whose update time
\* is within seven days; otherwise (no entry, content changed, stale entry,
\* unreadable file) it reports a miss.
C7_GetHitIff ==
    [][\A t \in Threads :
          (cpc[t] = "get_body" /\ cpc'[t] = "ret") =>
              gres'[t] = ExpectedGet(cop[t].path)]_vars

\* a Get that hit on an entry exactly seven days old
C7_Witness ==
    /\ cpc[SeqThread] = "ret"
    /\ cop[SeqThread].op = "get"
    /\ gres[SeqThread].ok
    /\ now - setLog[cop[SeqThread].path].time = StaleWindow

AllReturned == \A t \in Files : cpc[t] \in {"idle", "ret"}

\* a thread that waits for Cache.mu waits for a thread that can go on
NoneStuck ==
    \A t \in Files :
        /\ (cpc[t] = "get_rlock" /\ ~CanRLock) => cpc[rwWriter] = "set_write"
        /\ (cpc[t] = "set_lock" /\ ~CanLock) =>
              \E u \in Files : cpc[u] \in {"set_write", "get_body"}

\* C8: threads racing Get and Set on distinct paths: no call waits for
\* ever, and when all calls have returned the table holds exactly the
\* entries of the Sets, the cache file holds that table when the last save
\* succeeded, and every Get returned what it returns in a serial run.
C8_Serializable ==
    /\ NoneStuck
    /\ AllReturned =>
          /\ DOMAIN entries = {p \in Files : setLog[p].set}
          /\ \A p \in DOMAIN entries :
                /\ entries[p].deps = setLog[p].deps
                /\ entries[p].hash = <<"sha256", setLog[p].content>>
          /\ lastSave = "ok" => disk = Complete(entries)
          /\ \A t \in Files :
                (cpc[t] = "ret" /\ cop[t].op = "get") =>
                    gres[t] = ExpectedGet(t)

\* all threads are done, each stored an entry, one Get hit, the file is whole
C8_Witness ==
    /\ AllReturned
    /\ \A t \in Files : opsLeft[t] = 0 /\ setLog[t].set
    /\ \E t \in Files : cop[t].op = "get" /\ gres[t].ok
    /\ lastSave = "ok"

\* this is a later scan of f: an earlier scan matched f, and f has in this
\* scan the content it had then, no more than the window later
RescanPre(f) ==
    /\ scanNo >= 2
    /\ enableCache
    /\ prevScanned[f]
    /\ scanContent[f] = prevContent[f]
    /\ scanAt - prevAt[f] <= StaleWindow

C10_AtomicReplace == disk.ok /\ ~other.err

\* The file of entry p is present and still has the content the entry was
\* computed from.
FileUnchanged(table, p) ==
    exists[p] /\ table[p].hash = <<"sha256", content[p]>>

ValidateExamines(t) == cpc[t] = "val_lock" /\ cpc'[t] # "val_lock"
ValidateReturns(t) ==
    cpc[t] \in {"val_lock", "val_write"} /\ cpc'[t] = "ret"

\* C11: Validate keeps every entry whose file is unchanged, and when it
\* returns, no entry whose file is missing or has other content is left in
\* the table.
C11_ValidateEvictsExactly ==
    [][\A t \in Threads :
         /\ ValidateExamines(t) =>
               \A p \in DOMAIN entries :
                   FileUnchanged(entries, p) => p \in DOMAIN entries'
         /\ ValidateReturns(t) =>
               \A p \in DOMAIN entries' : FileUnchanged(entries', p)]_vars

\* the stop request for the scan in progress has been answered
Stopped == scanNo > 0 /\ stopReq = scanNo

\* C12: once stop(scan_id) was called on a running scan, the scan has status
\* stopped and no goroutine is started for a further file of that scan
\* (those already started go on).
C12_StopHaltsDispatch ==
    [][Stopped' =>
         /\ ScanStatus' = "stopped"
         /\ Stopped => \A f \in Files : wpc[f] = "none" => wpc'[f] = "none"]_vars

\* entry n and the directories between target_dir and n, target_dir excluded
RECURSIVE BelowRoot(_, _)
BelowRoot(t, n) == IF n = 0 THEN {} ELSE {n} \cup BelowRoot(t, t.parent[n])

\* the files that are not hidden and do not lie below a hidden sub-directory
VisibleFiles(t) ==
    {n \in 1..Len(t.parent) :
        /\ ~t.dir[n]
        /\ \A a \in BelowRoot(t, n) : t.name[a][1] # "."}

\* C13: the scan examines exactly the files of the tree below target_dir
\* that are not hidden and not below a hidden sub-directory, whatever the
\* name of target_dir is.
C13_ExaminesVisibleFiles ==
    examined.done => examined.files = VisibleFiles(tree)

\* C19: normalizing a normalized version gives it back:
\* normalize(normalize(v)) = normalize(v).
C19_NormalizeIdempotent ==
    normalized.done => normalizeVersion(normalized.value) = normalized.value

\* ---- the graph as a set of names and a relation
GraphNames(g) ==
    DOMAIN g.nodes \cup DOMAIN g.edges \cup
    UNION {Range(g.edges[p]) : p \in DOMAIN g.edges}
HasEdge(g, a, b) == ContainsItem(EdgesOf(g, a), b)

\* c lists the nodes of a simple cycle, each once, in the order of the edges
IsSimpleCycle(g, c) ==
    /\ Len(c) > 0
    /\ \A i \in DOMAIN c : HasEdge(g, c[i], c[(i % Len(c)) + 1])

\* the node sets of the simple cycles of g
SimpleCycleSets(g) ==
    {S \in SUBSET GraphNames(g) : \E c \in Perms(S) : IsSimpleCycle(g, c)}

Acyclic(g) == SimpleCycleSets(g) = {}

\* C14: for every simple cycle of the graph, some cycle that Analyze
\* returns consists of exactly the nodes of that cycle.
C14_EverySimpleCycleCovered ==
    analysis.done =>
        \A S \in SimpleCycleSets(graph) :
            \E k \in DOMAIN analysis.Cycles : Range(analysis.Cycles[k]) = S

\* two records of the package have normalized versions that both parse as
\* semver and are not equal
RecordsDisagree(records, pkg) ==
    \E a, b \in {NewVersion(normalizeVersion(records[i].Version)) :
                    i \in {k \in DOMAIN records : records[k].Name = pkg}} :
        a.ok /\ b.ok /\ a # b

Naming(conflicts, pkg) == {k \in DOMAIN conflicts : conflicts[k].Package = pkg}

\* C15: whenever two records of a package have normalized versions that
\* both parse as semver and are not equal, Analyze returns at least one
\* conflict that names the package.
C15_DisagreementReported ==
    analysis.done =>
        \A pkg \in ConflictNames :
            RecordsDisagree(deps, pkg) => Naming(analysis.Conflicts, pkg) # {}

C15_Witness ==
    /\ analysis.done
    /\ \E pkg \in ConflictNames :
          /\ RecordsDisagree(deps, pkg)
          /\ Naming(analysis.Conflicts, pkg) # {}

\* the versions observed for the package, in records or in children, hold
\* two that parse as semver once normalized and are not equal
ObservedConflict(records, pkg) ==
    \E a, b \in {NewVersion(normalizeVersion(v)) : v \in VersionsSeen(records, pkg)} :
        a.ok /\ b.ok /\ a # b

\* C16: Analyze returns exactly one conflict per package whose observed
\* versions conflict, so that one package seen at two versions gives a
\* conflicts list of length 1.
C16_OneConflictPerPackage ==
    analysis.done =>
        /\ \A pkg \in ConflictNames :
               Cardinality(Naming(analysis.Conflicts, pkg)) =
                   IF ObservedConflict(deps, pkg) THEN 1 ELSE 0
        /\ Len(analysis.Conflicts) =
               Cardinality({pkg \in ConflictNames : ObservedConflict(deps, pkg)})

\* the number of packages on the longest chain that starts at node
RECURSIVE ChainFrom(_, _, _)
ChainFrom(g, node, fuel) ==
    IF fuel = 0 THEN 0
    ELSE LET below == {ChainFrom(g, c, fuel - 1) : c \in Range(EdgesOf(g, node))}
         IN 1 + (IF below = {} THEN 0
                 ELSE CHOOSE m \in below : \A x \in below : x <= m)

\* the number of packages on the longest chain of an acyclic graph
LongestChain(g) ==
    LET lens == {ChainFrom(g, n, Cardinality(GraphNames(g))) : n \in GraphNames(g)}
    IN IF lens = {} THEN 0 ELSE CHOOSE m \in lens : \A x \in lens : x <= m

\* C17: for acyclic records, max_depth is the number of packages on the
\* longest dependency chain (0 for no records), in whatever order the nodes
\* are ranged over.
C17_MaxDepthIsLongestChain ==
    (analysis.done /\ Acyclic(graph)) =>
        analysis.MaxDepth = LongestChain(graph)

\* C18: the graph holds at most one edge for an ordered pair (parent,
\* child), however many records declare it.
C18_NoMultiEdges ==
    analysis.done =>
        \A p \in DOMAIN graph.edges :
            \A i, j \in DOMAIN graph.edges[p] :
                graph.edges[p][i] = graph.edges[p][j] => i = j

\* the records declare no cycle
DeclaredEdge(records, p, c) ==
    \E i \in DOMAIN records :
        /\ records[i].Name = p
        /\ \E j \in DOMAIN records[i].Dependencies :
              records[i].Dependencies[j].Name = c
DeclaredAcyclic(records) ==
    \A S \in SUBSET Names :
        \A c \in Perms(S) :
            Len(c) > 0 =>
                \E i \in DOMAIN c : ~DeclaredEdge(records, c[i], c[(i % Len(c)) + 1])

\* the positions at which the resolved list names a package
EmittedAt(name) ==
    {k \in DOMAIN resolved.Dependencies : resolved.Dependencies[k].Name = name}

\* C20: for acyclic records, the resolved records come in an order that
\* respects every edge: for an edge parent -> child with both ends
\* resolved, the parent is emitted before the child.
C20_ParentBeforeChild ==
    (resolved.done /\ ~resolved.err /\ DeclaredAcyclic(deps)) =>
        \A p, c \in Names :
            DeclaredEdge(deps, p, c) =>
                \A i \in EmittedAt(p) : \A j \in EmittedAt(c) : i < j

\* the records are cyclic: some package reaches itself along declared edges
DeclaredCyclic(records) == ~DeclaredAcyclic(records)

\* C21: Resolve fails on account of a dependency cycle exactly when strict
\* mode is set: a cyclic input fails under strict = TRUE and still yields a
\* result under strict = FALSE.
C21_CycleFailsIffStrict ==
    (resolved.done /\ DeclaredCyclic(deps)) =>
        (resolved.err <=> resolved.opts.Strict)

\* the record the graph holds for a package, its constraints, and the
\* candidates that satisfy every one of them
NodeOf(records, name) ==
    GraphGetNode(BuildGraph(NewDependencyGraph, records), name)
Satisfying(rec) ==
    {v \in Range(getAvailableVersions) :
        \A c \in Range(parseVersionConstraints(rec).constraints) : Check(c, v)}
ChosenFrom(candidates, v, strategy) ==
    /\ v \in candidates
    /\ strategy = "StrategyNewest" => \A w \in candidates : ~LessThan(v, w)
    /\ strategy \in {"StrategyOldest", "StrategyMinimal"} =>
           \A w \in candidates : ~LessThan(w, v)

NamedAt(names, name) == {k \in DOMAIN names : names[k] = name}

ApplicableTo(filename) ==
    ({detectFileType(filename)} \ {"none"})
    \cup {e \in PatternExtractors : IsApplicable(e, filename)}

\* C24: the extractor chosen for a file is an applicable one, no applicable
\* extractor that states a priority has a higher one, and a file is skipped
\* only when no extractor applies to it.
C24_DispatchPicksBestApplicable ==
    chosen.done =>
        IF ApplicableTo(chosen.filename) = {} THEN chosen.extractor = "none"
        ELSE /\ chosen.extractor \in ApplicableTo(chosen.filename)
             /\ \A e \in ApplicableTo(chosen.filename) \cap PatternExtractors :
                   chosen.extractor \in PatternExtractors =>
                       GetPriority(chosen.extractor) >= GetPriority(e)

\* the place in the file where the record was declared: the line of a
\* Ninja record, the position of its feature for a vcpkg record
DeclaredAt(record) ==
    IF text.format # "vcpkg" THEN record.Line
    ELSE IF record.Type = "library" THEN 0
    ELSE IF record.Type = "override" THEN Len(text.manifest.Features) + 1
    ELSE CHOOSE i \in DOMAIN text.manifest.Features :
             text.manifest.Features[i].Name = record.Description

\* C25: every extractor is deterministic and order-preserving: two calls
\* of Extract on the same file return the same records in the same order,
\* and the records come in the order in which the file declares them.
C25_ExtractDeterministicInOrder ==
    /\ \A i, j \in DOMAIN extracted : extracted[i] = extracted[j]
    /\ \A r \in DOMAIN extracted :
         \A i, j \in DOMAIN extracted[r] :
             i < j => DeclaredAt(extracted[r][i]) <= DeclaredAt(extracted[r][j])

IdentChars ==
    {"a", "b", "c", "d", "e", "f", "g", "h", "i", "j", "k", "l", "m",
     "n", "o", "p", "q", "r", "s", "t", "u", "v", "w", "x", "y", "z",
     "0", "1", "2", "3", "4", "5", "6", "7", "8", "9", "_"}

\* the identifier the string starts with
RECURSIVE Ident(_)
Ident(str) ==
    IF str = <<>> \/ Head(str) \notin IdentChars THEN <<>>
    ELSE <<Head(str)>> \o Ident(Tail(str))

\* the string with every reference $name or ${name} to a variable of the
\* table replaced by its value, and every other reference left as it is
RECURSIVE Expanded(_, _)
Expanded(str, table) ==
    IF str = <<>> THEN <<>>
    ELSE IF Head(str) # "$" THEN <<Head(str)>> \o Expanded(Tail(str), table)
    ELSE IF Len(str) > 1 /\ str[2] = "{" /\ Index(str, <<"}">>) > 0
    THEN (IF SubSeq(str, 3, Index(str, <<"}">>) - 1) \in DOMAIN table
          THEN table[SubSeq(str, 3, Index(str, <<"}">>) - 1)]
          ELSE SubSeq(str, 1, Index(str, <<"}">>)))
           \o Expanded(DropPrefix(str, Index(str, <<"}">>)), table)
    ELSE (IF Ident(Tail(str)) \in DOMAIN table
          THEN table[Ident(Tail(str))]
          ELSE <<"$">> \o Ident(Tail(str)))
           \o Expanded(DropPrefix(str, 1 + Len(Ident(Tail(str)))), table)

\* the variables the lines before line k define
RECURSIVE DefinedBefore(_, _)
DefinedBefore(lines, k) ==
    IF k <= 1 THEN <<>>
    ELSE With(DefinedBefore(lines, k - 1),
      LAMBDA table :
        With(MatchVariable(TrimSpace(lines[k - 1])),
          LAMBDA m :
            IF m.ok /\ ~HasPrefix(TrimSpace(lines[k - 1]), <<"#">>)
            THEN [n \in DOMAIN table \cup {m.name} |->
                     IF n = m.name THEN m.value ELSE table[n]]
            ELSE table))

\* the build statements of the file: the lines that are neither a variable
\* definition nor a directive and have the form of a build statement
BuildLines(lines) ==
    {k \in DOMAIN lines :
        /\ ~MatchVariable(TrimSpace(lines[k])).ok
        /\ MatchBuild(TrimSpace(lines[k])).ok}

\* the names and parents of the records of line k, in order
NamesOfLine(records, k) ==
    [i \in DOMAIN SelectSeq(records, LAMBDA rec : rec.Line = k) |->
        SelectSeq(records, LAMBDA rec : rec.Line = k)[i].Name]
ParentsOfLine(records, k) ==
    {records[i].Parent : i \in {j \in DOMAIN records : records[j].Line = k}}

\* C26: every record of a Ninja build statement is fully expanded: its
\* name is the input and its parent the first output, both with the
\* variables defined earlier in the file replaced by their values, and a
\* reference to a variable that is not defined is left unchanged.
C26_NinjaRecordsExpanded ==
    text.format = "ninja" =>
        \A r \in DOMAIN extracted :
            \A k \in BuildLines(text.lines) :
                /\ NamesOfLine(extracted[r], k)
                     = [i \in DOMAIN (MatchBuild(TrimSpace(text.lines[k])).inputs
                                        \o MatchBuild(TrimSpace(text.lines[k])).implicit) |->
                          Expanded((MatchBuild(TrimSpace(text.lines[k])).inputs
                                      \o MatchBuild(TrimSpace(text.lines[k])).implicit)[i],
                                   DefinedBefore(text.lines, k))]
                /\ ParentsOfLine(extracted[r], k)
                     = {Expanded(MatchBuild(TrimSpace(text.lines[k])).outputs[1],
                                 DefinedBefore(text.lines, k))}

\* the line up to a comment: a "#" or "//" that is not inside quotes
RECURSIVE StripComment(_, _)
StripComment(str, quoted) ==
    IF str = <<>> THEN <<>>
    ELSE IF ~quoted /\ (Head(str) = "#" \/ HasPrefix(str, <<"/", "/">>)) THEN <<>>
    ELSE <<Head(str)>>
           \o StripComment(Tail(str), IF Head(str) = "\"" THEN ~quoted ELSE quoted)

\* what follows the word and the words after it in the line, or NoMatch
AfterIn(line, word, words) ==
    IF Index(line, word) = 0 THEN NoMatch
    ELSE AfterWords(DropPrefix(line, Index(line, word) + Len(word) - 1), words)

\* what the file declares, read rule by rule: name = "..." names the rule,
\* deps = [ opens its list, the quoted items up to ] are its dependencies.
\* ok tells that every list belongs to a named rule and holds only items.
RECURSIVE DeclaredDeps(_, _, _, _, _)
DeclaredDeps(lines, k, target, inList, declared) ==
    IF k > Len(lines) THEN [ok |-> TRUE, deps |-> declared]
    ELSE With(StripComment(TrimSpace(lines[k]), FALSE),
      LAMBDA line :
        IF inList
        THEN IF Index(line, <<"(">>) # 0 \/ Index(line, <<"=">>) # 0
             THEN [ok |-> FALSE, deps |-> declared]
             ELSE DeclaredDeps(lines, k + 1, target, Index(line, <<"]">>) = 0,
                               declared \o [i \in DOMAIN QuotedItems(Before(line, {"]"})) |->
                                   [Name |-> QuotedItems(Before(line, {"]"}))[i],
                                    Parent |-> target]])
        ELSE With(IF AfterIn(line, <<"n", "a", "m", "e">>, <<<<"=">>, <<"\"">>>>) # NoMatch
                  THEN Before(AfterIn(line, <<"n", "a", "m", "e">>,
                                      <<<<"=">>, <<"\"">>>>), {"\""})
                  ELSE target,
          LAMBDA named :
            With(AfterIn(line, <<"d", "e", "p", "s">>, <<<<"=">>, <<"[">>>>),
              LAMBDA listed :
                IF listed = NoMatch
                THEN IF HasPrefix(line, <<"]">>)
                     THEN [ok |-> FALSE, deps |-> declared]
                     ELSE DeclaredDeps(lines, k + 1, named, FALSE, declared)
                ELSE IF named = <<>>
                THEN [ok |-> FALSE, deps |-> declared]
                ELSE DeclaredDeps(lines, k + 1, named, Index(listed, <<"]">>) = 0,
                                  declared \o [i \in DOMAIN QuotedItems(Before(listed, {"]"})) |->
                                      [Name |-> QuotedItems(Before(listed, {"]"}))[i],
                                       Parent |-> named]]))))

\* C27: each quoted item of a Buck rule's deps = [ ... ] list, on one line
\* or on several, yields exactly one record whose parent is the rule's
\* name, after # and // comments are stripped; quoted text outside a deps
\* list yields no record.
C27_BuckDepsListRecords ==
    (text.format = "buck" /\ DeclaredDeps(text.lines, 1, <<>>, FALSE, <<>>).ok) =>
        \A r \in DOMAIN extracted :
            [i \in DOMAIN extracted[r] |->
                [Name |-> extracted[r][i].Name, Parent |-> extracted[r][i].Parent]]
              = DeclaredDeps(text.lines, 1, <<>>, FALSE, <<>>).deps

\* what the control file declares, read field by field: a line that
\* begins with a blank continues the field of the line before it, and the
\* entries of a dependency field are records of the field's kind
RECURSIVE DeclaredEntries(_, _, _, _)
DeclaredEntries(lines, k, field, declared) ==
    IF k > Len(lines) THEN declared
    ELSE IF HasPrefix(lines[k], <<" ">>)
    THEN DeclaredEntries(lines, k + 1, field,
                         IF field = 0 THEN declared
                         ELSE declared \o processLine(TrimSpace(lines[k]),
                                                      ControlFields[field].type))
    ELSE DeclaredEntries(lines, k + 1, MatchField(lines[k]),
                         IF MatchField(lines[k]) = 0 THEN declared
                         ELSE declared \o processLine(
                                DropPrefix(lines[k],
                                    Len(ControlFields[MatchField(lines[k])].prefix)),
                                ControlFields[MatchField(lines[k])].type))

\* C28: in a Debian control file a continuation line (one that begins with
\* a space or tab) is part of the field it continues: its entries give
\* records of the same kind as the field's own, and the continuation of a
\* field that is not a dependency field (Description) gives none.
C28_ControlContinuationSameKind ==
    (text.format = "control" /\ text.lines # <<>>
       /\ ~HasPrefix(text.lines[1], <<" ">>)) =>
        \A r \in DOMAIN extracted :
            extracted[r] = DeclaredEntries(text.lines, 1, 0, <<>>)

\* C29: the result of Analyze depends only on the records passed to that
\* call: on an analyzer that has analysed other records before, or that
\* another scan shares, the cycles, the conflicts and the maximum depth
\* are what a new analyzer gives for the same records.
C29_AnalyzeDependsOnlyOnItsRecords ==
    analysis.done =>
        /\ analysis.Cycles
             \in {detectCycles(buildDependencyGraph(NoGraph, deps), cycleOrder) :
                    cycleOrder \in Perms(DOMAIN buildDependencyGraph(NoGraph, deps).nodes)}
        /\ analysis.MaxDepth
             \in {calculateDependencyDepth(buildDependencyGraph(NoGraph, deps),
                                           depthOrder) :
                    depthOrder \in Perms(DOMAIN buildDependencyGraph(NoGraph, deps).nodes)}
        /\ analysis.Conflicts \in detectVersionConflicts(deps)

\* C30: after Set, RemoveExpired, Validate or Clear has returned, with or
\* without an error, the persisted table equals the table in memory: a
\* cache constructed then loads exactly the entries the first one holds.
C30_PersistedEqualsInMemory ==
    (cpc[SeqThread] = "ret"
       /\ cop[SeqThread].op \in {"set", "remove_expired", "validate", "clear"}) =>
        NewCache = entries

====
